---- MODULE Spec2Model ----
(***************************************************************************)
(* Model of schema_compare.py: two workspace-schema XML exports (base and  *)
(* test) are normalized per category, diffed by seven category differs and *)
(* the diffs are written to one workbook sheet per category.               *)
(*                                                                         *)
(* Representation of the Python values:                                    *)
(*   - a str is a TLA+ string; a formatted str is the sequence of its      *)
(*     pieces (the format arguments stay visible);                         *)
(*   - a dict is the sequence of its <<key, value>> pairs in insertion     *)
(*     order, keys distinct; dict equality ignores that order;             *)
(*   - a list is a sequence;                                               *)
(*   - an XML element is the sequence of the <<tag, payload>> nodes the    *)
(*     parser visits, in document order;                                   *)
(*   - a call that can raise returns a record with status "error".         *)
(***************************************************************************)
EXTENDS Integers, Sequences, FiniteSets, TLC

VARIABLES
    pc,          \* position of the module-level script
    run,         \* 1 for the first run of the script, 2 for a second run
    ignore_str,  \* parameter 3, as a sequence of tokens
    ignore_dict, \* the six ignore flags
    warnings,    \* arcpy.AddWarning calls so far
    tree_base,   \* the parsed base document
    tree_test,   \* the parsed test document
    rets,        \* category -> what its differ returned (or "unset")
    save_wb,     \* the "any diff found" flag
    wb,          \* the in-memory workbook: its sheets, in creation order
    saved,       \* whether wb.save(out_xls) was executed
    prev_run     \* outputs of the first run, kept when the script is run again

vars == <<pc, run, ignore_str, ignore_dict, warnings, tree_base,
          tree_test, rets, save_wb, wb, saved, prev_run>>

----------------------------------------------------------------------------
(* Bounds of the model *)

\* longest entity list (per category and side) drawn for a document
MaxEntities == 2
\* longest field list drawn for a dataset
MaxFields == 2
\* longest subtype list drawn for a dataset
MaxSubtypes == 2

----------------------------------------------------------------------------
(* Python values *)

None == "<None>"

\* an unbound local variable
Unbound == "<unbound>"

\* str(x) of a str or of None
Str(x) == IF x = None THEN "None" ELSE x

Err(e) == [status |-> "error", error |-> e]

IsOk(r) == r.status = "ok"

\* Python's order on the strings the program sorts (code-point order)
StrOrder ==
    << "", "0", "1", "2", "3", ": ", "Active", "Buildings", "CalcArea", "CalcLength",
       "CheckSpeed", "DatasetName", "Description", "Dirt",
       "ExcludeFromClientEvaluation", "FieldName", "Gravel", "Inactive", "Inspections",
       "IsEnabled", "OBJECTID", "OWNER", "Parcels", "ParcelsInspections", "Paved",
       "ReferencesExternalService", "Retired", "RoadNet", "Roads", "RoadsInspections",
       "SPEED", "SURFACE", "ScriptExpression", "SpeedLimits", "Status", "SubtypeCode",
       "Transport", "TriggeringEvents", "Type", "UserEditable", "Utilities",
       "WaterNet", "esriTRTAreaCoveredByArea", "esriTRTAreaNoOverlap",
       "esriTRTLineNoOverlap", "objectid", "owner", "speed", "surface" >>

Rank(s) == CHOOSE i \in DOMAIN StrOrder : StrOrder[i] = s

RECURSIVE LexLess(_, _)
\* tuple comparison a < b of two equally long tuples of strings
LexLess(a, b) ==
    IF a = <<>> THEN FALSE
    ELSE IF Rank(Head(a)) # Rank(Head(b)) THEN Rank(Head(a)) < Rank(Head(b))
    ELSE LexLess(Tail(a), Tail(b))

\* list.sort / sorted with a key: stable; keys[i] is the key tuple of s[i]
SortedByKeys(s, keys) ==
    LET pos(i) == Cardinality({ j \in DOMAIN s :
                     LexLess(keys[j], keys[i])
                     \/ (keys[j] = keys[i] /\ j < i) }) + 1
    IN  [p \in DOMAIN s |-> s[CHOOSE i \in DOMAIN s : pos(i) = p]]

\* iteration order of a set of strings: decided by the run's hash seed
SetToList(S, seed) ==
    LET n == Cardinality(S)
        pos(x) == Cardinality({ y \in S : Rank(y) < Rank(x) }) + 1
        asc == [p \in 1..n |-> CHOOSE x \in S : pos(x) = p]
    IN  IF seed = 0 THEN asc ELSE [p \in 1..n |-> asc[n + 1 - p]]

\* iteration order of a set of (str, str) tuples with distinct first parts
PairSetToList(S, seed) ==
    LET firsts == SetToList({ x[1] : x \in S }, seed)
    IN  [p \in DOMAIN firsts |-> CHOOSE x \in S : x[1] = firsts[p]]

\* iteration order of a set of rule keys (tuples of strings)
KeySetToList(S, seed) ==
    LET n == Cardinality(S)
        pos(x) == Cardinality({ y \in S : LexLess(y, x) }) + 1
        asc == [p \in 1..n |-> CHOOSE x \in S : pos(x) = p]
    IN  IF seed = 0 THEN asc ELSE [p \in 1..n |-> asc[n + 1 - p]]

SeqToSet(s) == { s[i] : i \in DOMAIN s }

\* list.remove(x): drops the first element equal to x
RemoveAt(s, i) == [j \in 1..(Len(s) - 1) |-> IF j < i THEN s[j] ELSE s[j + 1]]

(* dict *)
HasKey(d, k) == \E i \in DOMAIN d : d[i][1] = k

Get(d, k) == d[CHOOSE i \in DOMAIN d : d[i][1] = k][2]

Put(d, k, v) ==
    IF HasKey(d, k)
    THEN [i \in DOMAIN d |-> IF d[i][1] = k THEN <<k, v>> ELSE d[i]]
    ELSE Append(d, <<k, v>>)

DelKey(d, k) == SelectSeq(d, LAMBDA kv : kv[1] # k)

KeySet(d) == { d[i][1] : i \in DOMAIN d }

\* == of two dicts of scalars
DictEq(a, b) == SeqToSet(a) = SeqToSet(b)

\* == of two values of an entity: a list of dicts, a dict, or a str
ValEq(k, x, y) ==
    IF k \in {"Fields", "Subtypes", "TopologyRules"}
    THEN Len(x) = Len(y) /\ \A i \in DOMAIN x : DictEq(x[i], y[i])
    ELSE IF k \in {"SubtypeInfo", "CodedValues"} THEN DictEq(x, y)
    ELSE x = y

\* == of two normalized entities (dicts with nested lists and dicts)
EntityEq(a, b) ==
    /\ KeySet(a) = KeySet(b)
    /\ \A k \in KeySet(a) : ValEq(k, Get(a, k), Get(b, k))

\* == of two lists of normalized entities
ListEq(a, b) == Len(a) = Len(b) /\ \A i \in DOMAIN a : EntityEq(a[i], b[i])

\* e in s
InList(e, s) == \E i \in DOMAIN s : EntityEq(s[i], e)

\* s after s.remove(e)
ListRemove(s, e) == RemoveAt(s, CHOOSE i \in DOMAIN s :
                        EntityEq(s[i], e) /\ \A j \in 1..(i - 1) : ~EntityEq(s[j], e))

\* a value stored in a mismatch dict: a list of triples, or one bare tuple
PyList(items) == [type |-> "list", items |-> items]
PyTuple(items) == [type |-> "tuple", items |-> items]

\* diff[name].append(t); a tuple has no append
DiffAppend(diff, name, t) ==
    IF Get(diff, name).type = "list"
    THEN [status |-> "ok",
          diff |-> Put(diff, name, PyList(Append(Get(diff, name).items, t)))]
    ELSE Err("AttributeError")

\* diff[name] = [t]
DiffSetList(diff, name, t) == [status |-> "ok", diff |-> Put(diff, name, PyList(<<t>>))]

\* diff[name] = t
DiffSetTuple(diff, name, t) == [status |-> "ok", diff |-> Put(diff, name, PyTuple(t))]

\* a branch that sets a single-triple list whether or not the name has an entry
AlwaysCreate(diff, name, t) == [status |-> "ok", diff |-> Put(diff, name, PyList(<<t>>))]

\* if name in diff.keys(): diff[name].append(t) else: diff[name] = [t]
AppendOrCreate(diff, name, t) ==
    IF HasKey(diff, name) THEN DiffAppend(diff, name, t) ELSE DiffSetList(diff, name, t)

\* the (missingList, mismatchDict, additionalList) a differ returns
Ret(miss, diff, add) == [status |-> "ok", miss |-> miss, diff |-> diff, add |-> add]

\* a differ that reports a nameless entity as missing for equal inputs
RetNameless == Ret(<< << <<"Name", "">>, <<"DomainName", "">> >> >>, <<>>, <<>>)

\* return [], {}, []
EmptyRet == Ret(<<>>, <<>>, <<>>)

(* the common head of the list-based differs *)

\* [i for i in list_test if i not in list_base]
NotInBase(list_base, list_test) ==
    SelectSeq(list_test, LAMBDA i : ~InList(i, list_base))

NamesOf(list, nk) == { Get(list[i], nk) : i \in DOMAIN list }

\* a differ that reports nothing as missing
MissingNone(list_base, list_test, nk) == <<>>

\* [i for i in list_base if i[nk] not in names_test]
MissingOf(list_base, list_test, nk) ==
    SelectSeq(list_base, LAMBDA i : Get(i, nk) \notin NamesOf(list_test, nk))

\* a differ that reports every changed test entity as additional
AdditionalNotIdentical(list_base, list_test, nk) == NotInBase(list_base, list_test)

\* [i for i in list_test if i[nk] not in names_base]
AdditionalOf(list_base, list_test, nk) ==
    SelectSeq(list_test, LAMBDA i : Get(i, nk) \notin NamesOf(list_base, nk))

RECURSIVE RemoveEach(_, _)
\* for x in add: diff_test.remove(x)
RemoveEach(diff_test, add) ==
    IF add = <<>> THEN diff_test
    ELSE RemoveEach(ListRemove(diff_test, Head(add)), Tail(add))

\* the test entities left to compare property by property
MismatchCandidates(list_base, list_test, nk) ==
    RemoveEach(NotInBase(list_base, list_test), AdditionalOf(list_base, list_test, nk))

\* whether [d for d in list_base if d[nk] == name] is empty ([0]: IndexError)
NoBase(list_base, nk, name) == name \notin NamesOf(list_base, nk)

\* [d for d in list_base if d[nk] == name][0]
BaseByName(list_base, nk, name) ==
    list_base[CHOOSE i \in DOMAIN list_base :
        /\ Get(list_base[i], nk) = name
        /\ \A j \in 1..(i - 1) : Get(list_base[j], nk) # name]

\* the return of a list-based differ whose mismatch loop ended as r
ReturnTriple(list_base, list_test, nk, r) ==
    IF ~IsOk(r) THEN r
    ELSE Ret(MissingOf(list_base, list_test, nk), r.diff,
             AdditionalOf(list_base, list_test, nk))

\* a parser that leaves the list in document order
SortByNameSkipped(list, nk) ==
    IF \E i \in DOMAIN list : ~HasKey(list[i], nk) THEN Err("KeyError")
    ELSE [status |-> "ok", list |-> list]

\* operator.itemgetter(nk) sort of a list of dicts; KeyError without the key
SortByName(list, nk) ==
    IF \E i \in DOMAIN list : ~HasKey(list[i], nk) THEN Err("KeyError")
    ELSE [status |-> "ok",
          list |-> SortedByKeys(list, [i \in DOMAIN list |-> <<Get(list[i], nk)>>])]

----------------------------------------------------------------------------
(* swap_key_value *)

RECURSIVE SwapFrom(_, _)
SwapFrom(d, acc) ==
    IF d = <<>> THEN acc
    ELSE SwapFrom(Tail(d), Put(acc, Head(d)[2], Head(d)[1]))

swap_key_value(d) == SwapFrom(d, <<>>)

----------------------------------------------------------------------------
(* Domains *)

DomainScalarTags == {"DomainName", "FieldType", "MergePolicy", "SplitPolicy"}

RECURSIVE Flatten(_)
Flatten(ss) == IF ss = <<>> THEN <<>> ELSE Head(ss) \o Flatten(Tail(ss))

RECURSIVE CodedValuesLoop(_, _, _)
\* for cv in coded_values: for cv_prop in cv.iter(): Name sets name, Code stores
CodedValuesLoop(props, cv_dict, name) ==
    IF props = <<>> THEN [status |-> "ok", cv_dict |-> cv_dict, name |-> name]
    ELSE LET p == Head(props) IN
         IF p[1] = "Name" THEN CodedValuesLoop(Tail(props), cv_dict, p[2])
         ELSE IF p[1] = "Code"
         THEN IF name = Unbound THEN Err("UnboundLocalError")
              ELSE CodedValuesLoop(Tail(props), Put(cv_dict, name, p[2]), name)
         ELSE CodedValuesLoop(Tail(props), cv_dict, name)

\* dict(sorted(cv_dict.items()))
SortedItems(d) == SortedByKeys(d, [i \in DOMAIN d |-> <<d[i][1]>>])

\* lines 62-70: the locals after the CodedValues loop r, which may have raised
CodedValuesRead(st, r) ==
    IF ~IsOk(r) THEN r
    ELSE [st EXCEPT !.cv_dict = r.cv_dict, !.name = r.name,
                    !.domain_dict = Put(@, "CodedValues", SortedItems(r.cv_dict))]

RECURSIVE DomainPropLoop(_, _)
\* for domain_prop in list(elem.iter()): ... ; st holds the locals
DomainPropLoop(nodes, st) ==
    IF nodes = <<>> \/ ~IsOk(st) THEN st
    ELSE LET p == Head(nodes) IN
         IF p[1] \in DomainScalarTags
         THEN DomainPropLoop(Tail(nodes),
                  [st EXCEPT !.domain_dict = Put(@, p[1], p[2])])
         ELSE IF p[1] = "CodedValues"
         THEN DomainPropLoop(Tail(nodes),
                  CodedValuesRead(st, CodedValuesLoop(Flatten(p[2]), st.cv_dict, st.name)))
         ELSE IF p[1] = "MaxValue"
         THEN DomainPropLoop(Tail(nodes), [st EXCEPT !.max_value = p[2]])
         ELSE IF p[1] = "MinValue"
         THEN IF st.max_value = Unbound THEN Err("UnboundLocalError")
              ELSE DomainPropLoop(Tail(nodes),
                       [st EXCEPT !.domain_dict =
                            Put(@, "Range", <<p[2], " - ", st.max_value>>)])
         ELSE DomainPropLoop(Tail(nodes), st)

\* domain_list.append(domain_dict), line 76
DomainAppend(r) ==
    IF ~IsOk(r) THEN r ELSE [r EXCEPT !.domain_list = Append(@, r.domain_dict)]

RECURSIVE DomainElemLoop(_, _)
\* for elem in node.iter("Domain"): a fresh domain_dict and cv_dict per element
DomainElemLoop(elems, st) ==
    IF elems = <<>> \/ ~IsOk(st) THEN st
    ELSE DomainElemLoop(Tail(elems),
             DomainAppend(DomainPropLoop(Head(elems),
                 [st EXCEPT !.domain_dict = <<>>, !.cv_dict = <<>>])))

\* domain_list.sort(key=operator.itemgetter("DomainName")), line 79
DomainsSorted(r) == IF ~IsOk(r) THEN r ELSE SortByName(r.domain_list, "DomainName")

get_domain_properties(tree) ==
    DomainsSorted(DomainElemLoop(tree.domains,
        [status |-> "ok", domain_list |-> <<>>, domain_dict |-> <<>>,
         cv_dict |-> <<>>, name |-> Unbound, max_value |-> Unbound]))

\* str(d) of a dict d: its repr
StrOf(d) == [repr |-> d]

\* the coded-value branch of compare_domains, lines 124-165
\* lines 139-165; base_diff and test_diff are <<>> where the code leaves ""
CodedValuesRecord(diff, domain_name, base_diff, test_diff) ==
    IF base_diff # <<>> /\ test_diff = <<>>
    THEN \* swap_key_value("") : a str has no items()
         Err("AttributeError")
    ELSE IF base_diff # <<>>
    THEN AppendOrCreate(diff, domain_name,
             << <<"Domain has ", "missing", " CodedValues">>,
                StrOf(swap_key_value(base_diff)), StrOf(test_diff) >>)
    ELSE AppendOrCreate(diff, domain_name,
             << <<"Domain has ", "additional", " CodedValues">>,
                "", StrOf(swap_key_value(test_diff)) >>)

\* the coded-value branch of compare_domains, lines 124-165
CodedValuesDiff(diff, domain_name, base_cv, val, seed) ==
    CodedValuesRecord(diff, domain_name,
        PairSetToList(SeqToSet(base_cv) \ SeqToSet(val), seed),
        PairSetToList(SeqToSet(val) \ SeqToSet(base_cv), seed))

RECURSIVE DomainKeyLoopReportsAbsent(_, _, _, _, _)
\* a property loop that reports a key the base record lacks as a mismatch
DomainKeyLoopReportsAbsent(items, domain_name, domain_base, st, seed) ==
    IF items = <<>> \/ ~IsOk(st) THEN st
    ELSE LET key == Head(items)[1]
             val == Head(items)[2]
         IN  IF ~HasKey(domain_base, key)
             THEN DomainKeyLoopReportsAbsent(Tail(items), domain_name, domain_base,
                      DiffSetList(st.diff, domain_name,
                          << <<"Domain has mismatch ", key, " property">>, None, val >>),
                      seed)
             ELSE IF ValEq(key, val, Get(domain_base, key))
             THEN DomainKeyLoopReportsAbsent(Tail(items), domain_name, domain_base, st,
                      seed)
             ELSE IF key # "CodedValues"
             THEN DomainKeyLoopReportsAbsent(Tail(items), domain_name, domain_base,
                      DiffSetList(st.diff, domain_name,
                          << <<"Domain has mismatch ", key, " property">>,
                             Get(domain_base, key), val >>), seed)
             ELSE DomainKeyLoopReportsAbsent(Tail(items), domain_name, domain_base,
                      CodedValuesDiff(st.diff, domain_name,
                          Get(domain_base, key), val, seed), seed)

RECURSIVE DomainKeyLoop(_, _, _, _, _)
\* for key, val in domain.items(): lines 111-165
DomainKeyLoop(items, domain_name, domain_base, st, seed) ==
    IF items = <<>> \/ ~IsOk(st) THEN st
    ELSE LET key == Head(items)[1]
             val == Head(items)[2]
         IN  IF ~HasKey(domain_base, key) THEN Err("KeyError")
             ELSE IF ValEq(key, val, Get(domain_base, key))
             THEN DomainKeyLoop(Tail(items), domain_name, domain_base, st, seed)
             ELSE IF key # "CodedValues"
             THEN DomainKeyLoop(Tail(items), domain_name, domain_base,
                      DiffSetList(st.diff, domain_name,
                          << <<"Domain has mismatch ", key, " property">>,
                             Get(domain_base, key), val >>), seed)
             ELSE DomainKeyLoop(Tail(items), domain_name, domain_base,
                      CodedValuesDiff(st.diff, domain_name,
                          Get(domain_base, key), val, seed), seed)

RECURSIVE DomainDiffLoop(_, _, _, _)
\* for domain in domain_diff_test: lines 105-165
DomainDiffLoop(diff_test, domain_list_base, st, seed) ==
    IF diff_test = <<>> \/ ~IsOk(st) THEN st
    ELSE LET domain == Head(diff_test)
             domain_name == Get(domain, "DomainName")
             domain_base == BaseByName(domain_list_base, "DomainName", domain_name)
         IN  IF NoBase(domain_list_base, "DomainName", domain_name) THEN Err("IndexError") ELSE
             DomainDiffLoop(Tail(diff_test), domain_list_base,
                 DomainKeyLoop(domain, domain_name, domain_base, st, seed), seed)

\* lines 87-166, from the two parsed lists pb and pt on
DomainsCompared(pb, pt, seed) ==
    IF ~IsOk(pb) THEN pb
    ELSE IF ~IsOk(pt) THEN pt
    ELSE IF ListEq(pb.list, pt.list) THEN EmptyRet
    ELSE ReturnTriple(pb.list, pt.list, "DomainName",
             DomainDiffLoop(MismatchCandidates(pb.list, pt.list, "DomainName"),
                 pb.list, [status |-> "ok", diff |-> <<>>], seed))

compare_domains(tb, tt, seed) ==
    DomainsCompared(get_domain_properties(tb), get_domain_properties(tt), seed)

----------------------------------------------------------------------------
(* Feature classes and tables *)

\* line 934
IGNORE_LEN_NON_TEXT_FIELDS == TRUE

DatasetScalarTags ==
    {"Name", "Versioned", "CanVersion", "ConfigurationKeyword", "ShapeType"}

FieldScalarTags ==
    {"Type", "IsNullable", "Length", "Precision", "Scale", "Required",
     "Editable", "DefaultValue"}

\* the field name stored as written: names would stay case-sensitive
LowerKeepsCase(s) == s

\* str.lower() on the field names of the documents
Lower(s) ==
    CASE s = "OWNER" -> "owner"
      [] s = "SPEED" -> "speed"
      [] s = "OBJECTID" -> "objectid"
      [] OTHER -> s

\* a parser that does not read the Domain element of a field
FieldDomainUnread(props, flds_dict) == flds_dict

RECURSIVE FieldDomainLoop(_, _)
\* for domain_prop in domain_data: DomainName sets flds_dict["Domain"]
FieldDomainLoop(props, flds_dict) ==
    IF props = <<>> THEN flds_dict
    ELSE FieldDomainLoop(Tail(props),
             IF Head(props)[1] = "DomainName"
             THEN Put(flds_dict, "Domain", Head(props)[2]) ELSE flds_dict)

RECURSIVE FieldPropLoop(_, _, _)
\* for fld_prop in flds_data: lines 232-253
FieldPropLoop(props, flds_dict, ignore_fld_alias) ==
    IF props = <<>> THEN flds_dict
    ELSE LET p == Head(props)
             d == Put(flds_dict, "Domain", "")
         IN  FieldPropLoop(Tail(props),
                 IF p[1] \in FieldScalarTags THEN Put(d, p[1], p[2])
                 ELSE IF p[1] = "Name" THEN Put(d, "Name", Lower(p[2]))
                 ELSE IF p[1] = "AliasName" /\ ~ignore_fld_alias
                 THEN Put(d, "AliasName", p[2])
                 ELSE IF p[1] = "Domain" THEN FieldDomainLoop(p[2], d)
                 ELSE d,
                 ignore_fld_alias)

\* the record of a field with its Length kept whatever its Type
FieldLengthKept(d) == [status |-> "ok", flds_dict |-> d]

\* lines 254-258: a field that is not text loses its Length
FieldLength(d) ==
    IF ~HasKey(d, "Type") THEN Err("KeyError")
    ELSE IF Get(d, "Type") # "esriFieldTypeString" /\ IGNORE_LEN_NON_TEXT_FIELDS
    THEN IF ~HasKey(d, "Length") THEN Err("KeyError")
         ELSE [status |-> "ok", flds_dict |-> DelKey(d, "Length")]
    ELSE [status |-> "ok", flds_dict |-> d]

\* the Field branch, lines 230-258: the record of one Field element
FieldRecord(props, ignore_fld_alias) ==
    FieldLength(FieldPropLoop(props, <<>>, ignore_fld_alias))

\* lines 260-261: dataset_dict["Fields"] = flds_list
FieldsSet(st, flds_list) ==
    [st EXCEPT !.flds_list = flds_list, !.dataset_dict = Put(@, "Fields", flds_list)]

\* line 259: if flds_dict not in flds_list: flds_list.append(flds_dict)
FieldAppend(st, f) ==
    IF ~IsOk(f) THEN f
    ELSE FieldsSet(st, IF \E i \in DOMAIN st.flds_list :
                              DictEq(st.flds_list[i], f.flds_dict)
                       THEN st.flds_list
                       ELSE Append(st.flds_list, f.flds_dict))

RECURSIVE SubtypeRecord(_, _)
\* for s in ds_prop.iter(): SubtypeName and SubtypeCode
SubtypeRecord(props, subtype_dict) ==
    IF props = <<>> THEN subtype_dict
    ELSE SubtypeRecord(Tail(props),
             IF Head(props)[1] \in {"SubtypeName", "SubtypeCode"}
             THEN Put(subtype_dict, Head(props)[1], Head(props)[2])
             ELSE subtype_dict)

RECURSIVE DatasetPropLoop(_, _, _)
\* for ds_prop in list(elem.iter()): lines 186-261; ig holds the four flags
DatasetPropLoop(nodes, st, ig) ==
    IF nodes = <<>> \/ ~IsOk(st) THEN st
    ELSE LET p == Head(nodes) IN
         IF p[1] \in DatasetScalarTags
            \/ (p[1] = "AliasName" /\ ~ig.ds_alias)
            \/ (p[1] = "HasM" /\ ~ig.hasm)
            \/ (p[1] = "HasZ" /\ ~ig.hasz)
         THEN DatasetPropLoop(Tail(nodes),
                  [st EXCEPT !.dataset_dict = Put(@, p[1], p[2])], ig)
         ELSE IF p[1] = "Subtype"
         THEN DatasetPropLoop(Tail(nodes),
                  [st EXCEPT !.subtype_list = Append(@, SubtypeRecord(p[2], <<>>))], ig)
         ELSE IF p[1] = "SubtypeFieldName"
         THEN DatasetPropLoop(Tail(nodes),
                  [st EXCEPT !.dataset_dict = Put(@, p[1], p[2]),
                             !.subtype_name_fld = p[2]], ig)
         ELSE IF p[1] = "DefaultSubtypeCode"
         THEN DatasetPropLoop(Tail(nodes),
                  [st EXCEPT !.subtype_default_code = p[2]], ig)
         ELSE IF p[1] = "Field"
         THEN DatasetPropLoop(Tail(nodes),
                  FieldAppend(st, FieldRecord(p[2], ig.fld_alias)), ig)
         ELSE DatasetPropLoop(Tail(nodes), st, ig)

\* lines 262-263: the Subtypes and SubtypeInfo entries close the record
DatasetClosed(r) ==
    IF ~IsOk(r) THEN r
    ELSE [status |-> "ok",
          dataset_dict |->
              Put(Put(r.dataset_dict, "Subtypes", r.subtype_list),
                  "SubtypeInfo",
                  << <<r.subtype_name_fld, r.subtype_default_code>> >>)]

\* one DataElement of the requested type, lines 180-264
DatasetRecord(elem, ig) ==
    DatasetClosed(DatasetPropLoop(elem,
        [status |-> "ok", dataset_dict |-> << <<"SubtypeFieldName", "">> >>,
         subtype_name_fld |-> "", subtype_default_code |-> "",
         flds_list |-> <<>>, subtype_list |-> <<>>], ig))

\* lines 264-265: dataset_list.append(dataset_dict) and the sort by Name
DatasetAppend(list, r) ==
    IF ~IsOk(r) THEN r ELSE SortByName(Append(list, r.dataset_dict), "Name")

RECURSIVE DatasetElemLoop(_, _, _)
\* for elem in tree.iter("DataElement"): append, then sort by Name
DatasetElemLoop(elems, st, ig) ==
    IF elems = <<>> \/ ~IsOk(st) THEN st
    ELSE DatasetElemLoop(Tail(elems),
             DatasetAppend(st.list, DatasetRecord(Head(elems), ig)), ig)

\* the DataElements of a document with the given type attribute
ElementsOf(tree, ds_type) ==
    CASE ds_type = "esri:DEFeatureClass" -> tree.fcs
      [] ds_type = "esri:DETable" -> tree.tables
      [] ds_type = "esri:DEFeatureDataset" -> tree.fds
      [] ds_type = "esri:DERelationshipClass" -> tree.rcs
      [] ds_type = "esri:DETopology" -> tree.topos

get_dataset_properties(tree, ds_type, ig) ==
    DatasetElemLoop(ElementsOf(tree, ds_type), [status |-> "ok", list |-> <<>>], ig)

\* item names of a list of dicts: [x[nk] for x in list]
ItemNames(list, nk) == { Get(list[i], nk) : i \in DOMAIN list }

\* s with every element equal to one of gone removed (a remove per element of gone)
RECURSIVE RemoveDicts(_, _)
RemoveDicts(s, gone) ==
    IF gone = <<>> THEN s
    ELSE LET i == CHOOSE i \in DOMAIN s :
                      /\ DictEq(s[i], Head(gone))
                      /\ \A j \in 1..(i - 1) : ~DictEq(s[j], Head(gone))
         IN  RemoveDicts(RemoveAt(s, i), Tail(gone))

RECURSIVE RecordEach(_, _, _)
\* for each triple t in turn: diff[ds_name].append(t), or diff[ds_name] = [t]
RecordEach(ts, st, ds_name) ==
    IF ts = <<>> \/ ~IsOk(st) THEN st
    ELSE RecordEach(Tail(ts), AppendOrCreate(st.diff, ds_name, Head(ts)), ds_name)

\* if ds_name in diff.keys(): diff[ds_name].append(t) else: diff[ds_name] = t
AppendOrCreateTuple(diff, ds_name, t) ==
    IF HasKey(diff, ds_name) THEN DiffAppend(diff, ds_name, t)
    ELSE DiffSetTuple(diff, ds_name, t)

RECURSIVE RecordEachTuple(_, _, _)
\* as RecordEach, but the entry is created as the bare tuple t (lines 353-357)
RecordEachTuple(ts, st, ds_name) ==
    IF ts = <<>> \/ ~IsOk(st) THEN st
    ELSE RecordEachTuple(Tail(ts), AppendOrCreateTuple(st.diff, ds_name, Head(ts)),
             ds_name)

\* the SubtypeInfo branch, lines 316-337
SubtypeInfoRecord(diff, ds_name, subtype_info_base, val, name) ==
    IF subtype_info_base[1][1] = val[1][1] /\ subtype_info_base[1][2] # val[1][2]
    THEN AppendOrCreateTuple(diff, ds_name,
             << <<name, " has mismatch DefaultSubtypeCode property">>,
                subtype_info_base[1][1], val[1][1] >>)
    ELSE [status |-> "ok", diff |-> diff]

SubtypeInfoDiff(diff, ds_name, ds_base, val, name) ==
    SubtypeInfoRecord(diff, ds_name, Get(ds_base, "SubtypeInfo"), val, name)

\* a selection that names no record, so that no field or subtype is told apart
NamedOutsideNone(list, other, nk) == SelectSeq(list, LAMBDA i : FALSE)

\* [i for i in list if i[nk] not in [x[nk] for x in other]]
NamedOutside(list, other, nk) ==
    SelectSeq(list, LAMBDA i : Get(i, nk) \notin ItemNames(other, nk))

\* the dict after a branch that ended as r, and the list val after the removes
Shortened(r, val) ==
    IF ~IsOk(r) THEN r ELSE [status |-> "ok", diff |-> r.diff, val |-> val]

\* lines 342-367: the additional subtypes, the missing ones, the removes
SubtypesRecord(diff, ds_name, val, st_miss, st_add) ==
    Shortened(
        RecordEach(
            [i \in DOMAIN st_miss |-> << <<"Missing subtype">>,
                                         Get(st_miss[i], "SubtypeName"), "" >>],
            RecordEachTuple(
                [i \in DOMAIN st_add |-> << <<"Additional subtype">>, "",
                                            Get(st_add[i], "SubtypeName") >>],
                [status |-> "ok", diff |-> diff], ds_name),
            ds_name),
        RemoveDicts(val, st_add))

\* lines 340-341: the names of the subtypes on both sides
SubtypesNamed(diff, ds_name, st_base_list, val) ==
    IF \E i \in DOMAIN val : ~HasKey(val[i], "SubtypeName") THEN Err("KeyError")
    ELSE IF \E i \in DOMAIN st_base_list : ~HasKey(st_base_list[i], "SubtypeName")
    THEN Err("KeyError")
    ELSE SubtypesRecord(diff, ds_name, val,
             NamedOutside(st_base_list, val, "SubtypeName"),
             NamedOutside(val, st_base_list, "SubtypeName"))

\* the Subtypes branch, lines 338-367; also returns the list val after the removes
SubtypesDiff(diff, ds_name, ds_base, val) ==
    SubtypesNamed(diff, ds_name, Get(ds_base, "Subtypes"), val)

RECURSIVE FieldKeyPairs(_, _, _, _)
\* for base_key, base_val in flds_base.items(): for test_key, test_val in
\* fld_prop.items(): lines 398-422; pairs is the cross product in loop order
FieldKeyPairs(pairs, st, ds_name, fld_name) ==
    IF pairs = <<>> \/ ~IsOk(st) THEN st
    ELSE LET b == Head(pairs)[1]
             t == Head(pairs)[2]
         IN  FieldKeyPairs(Tail(pairs),
                 IF b[1] = t[1] /\ b[2] # t[2]
                 THEN AppendOrCreate(st.diff, ds_name,
                          << <<fld_name, " field has different values for ", b[1]>>,
                             Str(b[2]), Str(t[2]) >>)
                 ELSE st,
                 ds_name, fld_name)

\* the pairs (x, y), x in a, y in b, in nested-loop order
CrossSeq(a, b) ==
    [k \in 1..(Len(a) * Len(b)) |->
        << a[((k - 1) \div Len(b)) + 1], b[((k - 1) % Len(b)) + 1] >>]

RECURSIVE FieldPairsByPosition(_, _, _)
\* a field loop that compares every test field with every base field, whatever
\* their names
FieldPairsByPosition(pairs, st, ds_name) ==
    IF pairs = <<>> \/ ~IsOk(st) THEN st
    ELSE FieldPairsByPosition(Tail(pairs),
             FieldKeyPairs(CrossSeq(Head(pairs)[2], Head(pairs)[1]), st, ds_name,
                 Get(Head(pairs)[1], "Name")),
             ds_name)

RECURSIVE FieldPairs(_, _, _)
\* for fld_prop in val: for flds_base in flds_base_list: lines 393-422
FieldPairs(pairs, st, ds_name) ==
    IF pairs = <<>> \/ ~IsOk(st) THEN st
    ELSE LET fld_prop == Head(pairs)[1]
             flds_base == Head(pairs)[2]
         IN  FieldPairs(Tail(pairs),
                 IF Get(flds_base, "Name") = Get(fld_prop, "Name")
                 THEN FieldKeyPairs(CrossSeq(flds_base, fld_prop), st, ds_name,
                          Get(fld_prop, "Name"))
                 ELSE st,
                 ds_name)

\* lines 393-422 on the fields left in val after the removes
FieldsCompared(r, ds_name, flds_base_list, val) ==
    Shortened(FieldPairs(CrossSeq(val, flds_base_list), r, ds_name), val)

\* lines 374-391: the additional fields, the missing ones, the removes
FieldsRecord(diff, ds_name, flds_base_list, val, flds_miss, flds_add) ==
    FieldsCompared(
        RecordEach(
            [i \in DOMAIN flds_miss |-> << <<"Missing field">>,
                                           Get(flds_miss[i], "Name"), "" >>],
            RecordEach(
                [i \in DOMAIN flds_add |-> << <<"Additional field">>, "",
                                              Get(flds_add[i], "Name") >>],
                [status |-> "ok", diff |-> diff], ds_name),
            ds_name),
        ds_name, flds_base_list, RemoveDicts(val, flds_add))

\* lines 372-373: the names of the fields on both sides
FieldsNamed(diff, ds_name, flds_base_list, val) ==
    IF \E i \in DOMAIN val : ~HasKey(val[i], "Name") THEN Err("KeyError")
    ELSE IF \E i \in DOMAIN flds_base_list : ~HasKey(flds_base_list[i], "Name")
    THEN Err("KeyError")
    ELSE FieldsRecord(diff, ds_name, flds_base_list, val,
             NamedOutside(flds_base_list, val, "Name"),
             NamedOutside(val, flds_base_list, "Name"))

\* the Fields branch, lines 369-422; also returns the list val after the removes
FieldsDiff(diff, ds_name, ds_base, val) ==
    IF ~HasKey(ds_base, "Fields") THEN Err("KeyError")
    ELSE FieldsNamed(diff, ds_name, Get(ds_base, "Fields"), val)

\* the locals st with the mismatch dict of a step that ended as r
DiffOf(st, r) == IF ~IsOk(r) THEN r ELSE [st EXCEPT !.diff = r.diff]

\* and with the list under key shortened in place by the step
ShortenedIn(st, key, r) ==
    IF ~IsOk(r) THEN r ELSE [st EXCEPT !.diff = r.diff, !.ds = Put(@, key, r.val)]

RECURSIVE DatasetKeyLoop(_, _, _, _, _)
\* for key, val in ds.items(): lines 314-441; st.ds is the test record, whose
\* Subtypes and Fields lists the branches shorten in place
DatasetKeyLoop(keys, ds_name, ds_base, st, name) ==
    IF keys = <<>> \/ ~IsOk(st) THEN st
    ELSE LET key == Head(keys)
             val == Get(st.ds, Head(keys))
         IN  IF key = "SubtypeInfo"
             THEN DatasetKeyLoop(Tail(keys), ds_name, ds_base,
                      DiffOf(st, SubtypeInfoDiff(st.diff, ds_name, ds_base, val, name)),
                      name)
             ELSE IF key = "Subtypes"
             THEN DatasetKeyLoop(Tail(keys), ds_name, ds_base,
                      ShortenedIn(st, key, SubtypesDiff(st.diff, ds_name, ds_base, val)),
                      name)
             ELSE IF key = "Fields"
             THEN DatasetKeyLoop(Tail(keys), ds_name, ds_base,
                      ShortenedIn(st, key, FieldsDiff(st.diff, ds_name, ds_base, val)),
                      name)
             ELSE IF ~HasKey(ds_base, key) THEN Err("KeyError")
             ELSE IF val # Get(ds_base, key)
             THEN DatasetKeyLoop(Tail(keys), ds_name, ds_base,
                      DiffOf(st, AppendOrCreate(st.diff, ds_name,
                                     << <<name, " has mismatch ", key, " property">>,
                                        Get(ds_base, key), val >>)),
                      name)
             ELSE DatasetKeyLoop(Tail(keys), ds_name, ds_base, st, name)

\* positions in ds_list_test of the entries of ds_diff_test, lines 300-308
RECURSIVE DropFirstEqual(_, _, _)
DropFirstEqual(idx, list, gone) ==
    IF gone = <<>> THEN idx
    ELSE LET k == CHOOSE k \in DOMAIN idx :
                      /\ EntityEq(list[idx[k]], Head(gone))
                      /\ \A j \in 1..(k - 1) : ~EntityEq(list[idx[j]], Head(gone))
         IN  DropFirstEqual(RemoveAt(idx, k), list, Tail(gone))

Indices(s) == [i \in DOMAIN s |-> i]

DatasetCandidates(ds_list_base, ds_list_test) ==
    DropFirstEqual(
        SelectSeq(Indices(ds_list_test),
            LAMBDA i : ~InList(ds_list_test[i], ds_list_base)),
        ds_list_test, AdditionalOf(ds_list_base, ds_list_test, "Name"))

\* the test list holds the record the key loop r compared and shortened
DatasetStored(st, k, r) ==
    IF ~IsOk(r) THEN r
    ELSE [st EXCEPT !.diff = r.diff, !.ds_list_test = [@ EXCEPT ![k] = r.ds]]

RECURSIVE DatasetDiffLoop(_, _, _, _)
\* for ds in ds_diff_test: lines 310-441; st.ds_list_test is the test list
DatasetDiffLoop(idx, ds_list_base, st, name) ==
    IF idx = <<>> \/ ~IsOk(st) THEN st
    ELSE LET ds == st.ds_list_test[Head(idx)]
             ds_name == Get(st.ds_list_test[Head(idx)], "Name")
         IN  IF NoBase(ds_list_base, "Name", ds_name) THEN Err("IndexError")
             ELSE DatasetDiffLoop(Tail(idx), ds_list_base,
                      DatasetStored(st, Head(idx),
                          DatasetKeyLoop([i \in DOMAIN ds |-> ds[i][1]], ds_name,
                              BaseByName(ds_list_base, "Name", ds_name),
                              [status |-> "ok", diff |-> st.diff, ds |-> ds], name)),
                      name)

\* line 443: return (ds_miss, ds_diff, ds_add)
DatasetsReturn(list_base, list_test, r) ==
    IF ~IsOk(r) THEN r
    ELSE Ret(MissingOf(list_base, list_test, "Name"), r.diff,
             AdditionalOf(list_base, list_test, "Name"))
         @@ [ds_list_test |-> r.ds_list_test]

\* lines 296-443, from the two parsed lists pb and pt on
DatasetsCompared(pb, pt, name) ==
    IF ~IsOk(pb) THEN pb
    ELSE IF ~IsOk(pt) THEN pt
    ELSE IF ListEq(pb.list, pt.list) THEN EmptyRet @@ [ds_list_test |-> pt.list]
    ELSE DatasetsReturn(pb.list, pt.list,
             DatasetDiffLoop(DatasetCandidates(pb.list, pt.list), pb.list,
                 [status |-> "ok", diff |-> <<>>, ds_list_test |-> pt.list], name))

compare_datasets(tb, tt, ds_type, name, ig) ==
    DatasetsCompared(get_dataset_properties(tb, ds_type, ig),
        get_dataset_properties(tt, ds_type, ig), name)

----------------------------------------------------------------------------
(* Relationship classes *)

RcTags ==
    {"Name", "Versioned", "CanVersion", "ConfigurationKeyword", "HasOID",
     "OIDFieldName", "Fields", "Cardinality", "IsComposite", "OriginClassNames",
     "DestinationClassNames", "KeyType", "ClassKey", "IsReflexive",
     "OriginClassKeys", "RelationshipRules", "IsAttachmentRelationship"}

RECURSIVE TagsToDict(_, _, _)
\* for prop in children: if prop.tag in tags: d[prop.tag] = prop.text
TagsToDict(nodes, tags, d) ==
    IF nodes = <<>> THEN d
    ELSE TagsToDict(Tail(nodes), tags,
             IF Head(nodes)[1] \in tags THEN Put(d, Head(nodes)[1], Head(nodes)[2])
             ELSE d)

\* a list-based differ from its two parsed lists pb and pt on, its mismatch
\* loop ending as r
DiffersReturn(pb, pt, r) ==
    IF ~IsOk(pb) THEN pb
    ELSE IF ~IsOk(pt) THEN pt
    ELSE IF ListEq(pb.list, pt.list) THEN EmptyRet
    ELSE ReturnTriple(pb.list, pt.list, "Name", r)

RECURSIVE RcElemLoop(_, _)
RcElemLoop(elems, st) ==
    IF elems = <<>> \/ ~IsOk(st) THEN st
    ELSE RcElemLoop(Tail(elems),
             SortByName(Append(st.list, TagsToDict(Head(elems), RcTags, <<>>)), "Name"))

get_rc_properties(tree, ds_type) ==
    RcElemLoop(ElementsOf(tree, ds_type), [status |-> "ok", list |-> <<>>])

RECURSIVE RcKeyLoop(_, _, _, _, _)
\* for key, val in rc.items(): lines 499-508
RcKeyLoop(items, rc_name, rc_base, st, name) ==
    IF items = <<>> \/ ~IsOk(st) THEN st
    ELSE LET key == Head(items)[1]
             val == Head(items)[2]
         IN  IF ~HasKey(rc_base, key) THEN Err("KeyError")
             ELSE RcKeyLoop(Tail(items), rc_name, rc_base,
                      IF val # Get(rc_base, key)
                      THEN DiffSetList(st.diff, rc_name,
                               << <<name, " has mismatch ", key, " property">>,
                                  Get(rc_base, key), val >>)
                      ELSE st,
                      name)

RECURSIVE RcDiffLoop(_, _, _, _)
RcDiffLoop(diff_test, rc_list_base, st, name) ==
    IF diff_test = <<>> \/ ~IsOk(st) THEN st
    ELSE LET rc == Head(diff_test)
             rc_name == Get(rc, "Name")
             rc_base == BaseByName(rc_list_base, "Name", rc_name)
         IN  IF NoBase(rc_list_base, "Name", rc_name) THEN Err("IndexError") ELSE
             RcDiffLoop(Tail(diff_test), rc_list_base,
                 RcKeyLoop(rc, rc_name, rc_base, st, name), name)

\* lines 481-510, from the two parsed lists pb and pt on
RcsCompared(pb, pt, name) ==
    DiffersReturn(pb, pt,
        RcDiffLoop(MismatchCandidates(pb.list, pt.list, "Name"),
            pb.list, [status |-> "ok", diff |-> <<>>], name))

compare_relationship_classes(tb, tt, ds_type, name) ==
    RcsCompared(get_rc_properties(tb, ds_type), get_rc_properties(tt, ds_type), name)

----------------------------------------------------------------------------
(* Feature datasets *)

FdsTags ==
    {"DatasetType", "Name", "Versioned", "CanVersion", "Extent", "SpatialReference"}

\* list.sort() of a list of strings
SortedStrings(s) == SortedByKeys(s, [i \in DOMAIN s |-> <<s[i]>>])

RECURSIVE FdsChildLoop(_, _)
\* for child in children: lines 523-547
FdsChildLoop(nodes, fds_dict) ==
    IF nodes = <<>> THEN fds_dict
    ELSE LET c == Head(nodes) IN
         FdsChildLoop(Tail(nodes),
             IF c[1] \in FdsTags THEN Put(fds_dict, c[1], c[2])
             ELSE IF c[1] = "Children"
             THEN LET fcs == SelectSeq(c[2], LAMBDA g : g[1] = "esri:DEFeatureClass")
                  IN  Put(fds_dict, "Children",
                          SortedStrings(Get(fds_dict, "Children")
                                        \o [i \in DOMAIN fcs |-> fcs[i][2]]))
             ELSE fds_dict)

RECURSIVE FdsElemLoop(_, _)
\* an element is kept when it has a DatasetType child esriDTFeatureDataset
FdsElemLoop(elems, st) ==
    IF elems = <<>> \/ ~IsOk(st) THEN st
    ELSE IF \E i \in DOMAIN Head(elems) :
                /\ Head(elems)[i][1] = "DatasetType"
                /\ Head(elems)[i][2] = "esriDTFeatureDataset"
    THEN FdsElemLoop(Tail(elems),
             SortByName(
                 Append(st.list, FdsChildLoop(Head(elems), << <<"Children", <<>> >> >>)),
                 "Name"))
    ELSE FdsElemLoop(Tail(elems), st)

get_fds_properties(tree, ds_type) ==
    FdsElemLoop(ElementsOf(tree, ds_type), [status |-> "ok", list |-> <<>>])

RECURSIVE FdsKeyLoopWithChildren(_, _, _, _, _)
\* a property loop that compares the Children list like any other property
FdsKeyLoopWithChildren(items, fds_name, fds_base, st, name) ==
    IF items = <<>> \/ ~IsOk(st) THEN st
    ELSE LET key == Head(items)[1]
             val == Head(items)[2]
         IN  IF ~HasKey(fds_base, key) THEN Err("KeyError")
             ELSE FdsKeyLoopWithChildren(Tail(items), fds_name, fds_base,
                      IF val # Get(fds_base, key)
                      THEN AppendOrCreate(st.diff, fds_name,
                               << <<name, " has mismatch ", key, " property">>,
                                  Get(fds_base, key), val >>)
                      ELSE st,
                      name)

RECURSIVE FdsKeyLoop(_, _, _, _, _)
\* for key, val in fds.items(): lines 575-594
FdsKeyLoop(items, fds_name, fds_base, st, name) ==
    IF items = <<>> \/ ~IsOk(st) THEN st
    ELSE LET key == Head(items)[1]
             val == Head(items)[2]
         IN  IF key = "Children"
             THEN FdsKeyLoop(Tail(items), fds_name, fds_base, st, name)
             ELSE IF ~HasKey(fds_base, key) THEN Err("KeyError")
             ELSE FdsKeyLoop(Tail(items), fds_name, fds_base,
                      IF val # Get(fds_base, key)
                      THEN AppendOrCreate(st.diff, fds_name,
                               << <<name, " has mismatch ", key, " property">>,
                                  Get(fds_base, key), val >>)
                      ELSE st,
                      name)

RECURSIVE FdsDiffLoop(_, _, _, _)
FdsDiffLoop(diff_test, fds_list_base, st, name) ==
    IF diff_test = <<>> \/ ~IsOk(st) THEN st
    ELSE LET fds == Head(diff_test)
             fds_name == Get(fds, "Name")
             fds_base == BaseByName(fds_list_base, "Name", fds_name)
         IN  IF NoBase(fds_list_base, "Name", fds_name) THEN Err("IndexError") ELSE
             FdsDiffLoop(Tail(diff_test), fds_list_base,
                 FdsKeyLoop(fds, fds_name, fds_base, st, name), name)

\* lines 557-595, from the two parsed lists pb and pt on
FdsCompared(pb, pt, name) ==
    DiffersReturn(pb, pt,
        FdsDiffLoop(MismatchCandidates(pb.list, pt.list, "Name"),
            pb.list, [status |-> "ok", diff |-> <<>>], name))

compare_fds(tb, tt, ds_type, name) ==
    FdsCompared(get_fds_properties(tb, ds_type), get_fds_properties(tt, ds_type), name)

----------------------------------------------------------------------------
(* Topologies *)

RECURSIVE FcIdLoop(_, _, _)
\* lines 600-607: Name sets name, DSID stores fc_dict[DSID] = name
FcIdLoop(nodes, fc_dict, name) ==
    IF nodes = <<>> THEN [status |-> "ok", fc_dict |-> fc_dict, name |-> name]
    ELSE LET p == Head(nodes) IN
         IF p[1] = "Name" THEN FcIdLoop(Tail(nodes), fc_dict, p[2])
         ELSE IF p[1] = "DSID"
         THEN IF name = Unbound THEN Err("UnboundLocalError")
              ELSE FcIdLoop(Tail(nodes), Put(fc_dict, p[2], name), name)
         ELSE FcIdLoop(Tail(nodes), fc_dict, name)

RECURSIVE FcIdTable(_, _)
FcIdTable(elems, st) ==
    IF elems = <<>> \/ ~IsOk(st) THEN st
    ELSE FcIdTable(Tail(elems), FcIdLoop(Head(elems), st.fc_dict, st.name))

TopoScalarTags ==
    {"Name", "ClusterTolerance", "ZClusterTolerance", "MaxGeneratedErrorCount"}

RECURSIVE TopoRuleDictRawId(_, _, _)
\* a rule loop that keeps the raw class ID when the table has no name for it
TopoRuleDictRawId(nodes, rule_dict, fc_dict) ==
    IF nodes = <<>> THEN [status |-> "ok", rule_dict |-> rule_dict]
    ELSE LET p == Head(nodes) IN
         IF p[1] \in {"TopologyRuleType", "OriginSubtype", "DestinationSubtype"}
         THEN TopoRuleDictRawId(Tail(nodes), Put(rule_dict, p[1], p[2]), fc_dict)
         ELSE IF p[1] \in {"OriginClassID", "DestinationClassID"}
         THEN TopoRuleDictRawId(Tail(nodes),
                  Put(rule_dict, p[1],
                      IF HasKey(fc_dict, p[2]) THEN Get(fc_dict, p[2]) ELSE p[2]),
                  fc_dict)
         ELSE TopoRuleDictRawId(Tail(nodes), rule_dict, fc_dict)

RECURSIVE TopoRuleDict(_, _, _)
\* for topo_rule in list(topo_rules.getchildren()): lines 632-644
TopoRuleDict(nodes, rule_dict, fc_dict) ==
    IF nodes = <<>> THEN [status |-> "ok", rule_dict |-> rule_dict]
    ELSE LET p == Head(nodes) IN
         IF p[1] \in {"TopologyRuleType", "OriginSubtype", "DestinationSubtype"}
         THEN TopoRuleDict(Tail(nodes), Put(rule_dict, p[1], p[2]), fc_dict)
         ELSE IF p[1] \in {"OriginClassID", "DestinationClassID"}
         THEN IF ~HasKey(fc_dict, p[2]) THEN Err("KeyError")
              ELSE TopoRuleDict(Tail(nodes),
                       Put(rule_dict, p[1], Get(fc_dict, p[2])), fc_dict)
         ELSE TopoRuleDict(Tail(nodes), rule_dict, fc_dict)

\* rule_list.append(rule_dict), line 645
RuleAppend(st, r) ==
    IF ~IsOk(r) THEN r ELSE [st EXCEPT !.rule_list = Append(@, r.rule_dict)]

RECURSIVE TopoRulesLoop(_, _, _)
TopoRulesLoop(rules, st, fc_dict) ==
    IF rules = <<>> \/ ~IsOk(st) THEN st
    ELSE TopoRulesLoop(Tail(rules),
             RuleAppend(st, TopoRuleDict(Head(rules), <<>>, fc_dict)), fc_dict)

RuleSortKeys ==
    <<"OriginClassID", "TopologyRuleType", "DestinationClassID", "OriginSubtype",
      "DestinationSubtype">>

\* sorted(rule_list, key=lambda x: (...)): KeyError for a rule without a key
SortedRules(rule_list) ==
    IF \E i \in DOMAIN rule_list : \E k \in DOMAIN RuleSortKeys :
           ~HasKey(rule_list[i], RuleSortKeys[k])
    THEN Err("KeyError")
    ELSE [status |-> "ok",
          list |-> SortedByKeys(rule_list,
                       [i \in DOMAIN rule_list |->
                           [k \in DOMAIN RuleSortKeys |->
                               Get(rule_list[i], RuleSortKeys[k])]])]

RECURSIVE TopoPropLoop(_, _, _)
\* for topo_prop in list(elem.getchildren()): lines 616-645
TopoPropLoop(nodes, st, fc_dict) ==
    IF nodes = <<>> \/ ~IsOk(st) THEN st
    ELSE LET p == Head(nodes) IN
         IF p[1] \in TopoScalarTags
         THEN TopoPropLoop(Tail(nodes),
                  [st EXCEPT !.topo_dict = Put(@, p[1], p[2])], fc_dict)
         ELSE IF p[1] = "FeatureClassNames"
         THEN TopoPropLoop(Tail(nodes),
                  [st EXCEPT !.fc_list = SortedStrings(@ \o p[2])], fc_dict)
         ELSE IF p[1] = "TopologyRules"
         THEN TopoPropLoop(Tail(nodes), TopoRulesLoop(p[2], st, fc_dict), fc_dict)
         ELSE TopoPropLoop(Tail(nodes), st, fc_dict)

\* lines 658-659: topo_list.append(topo_dict) and the sort by Name
TopoSorted(list, r, rules) ==
    IF ~IsOk(rules) THEN rules
    ELSE SortByName(
             Append(list,
                 Put(Put(r.topo_dict, "FeatureClassNames", r.fc_list),
                     "TopologyRules", rules.list)),
             "Name")

\* lines 647-657: the rules of the topology r are sorted first
TopoAppend(list, r) ==
    IF ~IsOk(r) THEN r ELSE TopoSorted(list, r, SortedRules(r.rule_list))

RECURSIVE TopoElemLoop(_, _, _)
TopoElemLoop(elems, st, fc_dict) ==
    IF elems = <<>> \/ ~IsOk(st) THEN st
    ELSE TopoElemLoop(Tail(elems),
             TopoAppend(st.list,
                 TopoPropLoop(Head(elems),
                     [status |-> "ok", topo_dict |-> <<>>, fc_list |-> <<>>,
                      rule_list |-> <<>>], fc_dict)),
             fc_dict)

\* lines 609-661 with the table of class names t
TopoParsed(tree, ds_type, t) ==
    IF ~IsOk(t) THEN t
    ELSE TopoElemLoop(ElementsOf(tree, ds_type), [status |-> "ok", list |-> <<>>],
             t.fc_dict)

get_topo_properties(tree, ds_type) ==
    TopoParsed(tree, ds_type,
        FcIdTable(tree.fcs, [status |-> "ok", fc_dict |-> <<>>, name |-> Unbound]))

\* str(rule).replace("'", "")
ReprNoQuotes(rule) == [repr_noquotes |-> rule]

\* the triples of one branch of lines 706-786, in the order of the list items
TopoTriples(items, desc, isMissing) ==
    [i \in DOMAIN items |->
        IF isMissing THEN << <<desc>>, items[i], None >>
        ELSE << <<desc>>, None, items[i] >>]

\* lines 708-738: set(base) - set(val) and set(val) - set(base), each iterated
FcNamesDiff(st, topo_name, b, val, seed) ==
    RecordEach(
        TopoTriples(SetToList(SeqToSet(b) \ SeqToSet(val), seed),
            "Missing feature class in topology", TRUE)
        \o TopoTriples(SetToList(SeqToSet(val) \ SeqToSet(b), seed),
               "Additional feature class in topology", FALSE),
        st, topo_name)

\* [str(rule).replace("'", "") for rule in rules]
ReprsNoQuotes(rules) == [i \in DOMAIN rules |-> ReprNoQuotes(rules[i])]

\* lines 741-786: the rules of one side that the other side does not list
RulesDiff(st, topo_name, b, val) ==
    RecordEach(
        TopoTriples(
            ReprsNoQuotes(SelectSeq(b, LAMBDA rule :
                ~\E i \in DOMAIN val : DictEq(val[i], rule))),
            "Missing topology rule", TRUE)
        \o TopoTriples(
               ReprsNoQuotes(SelectSeq(val, LAMBDA rule :
                   ~\E i \in DOMAIN b : DictEq(b[i], rule))),
               "Additional topology rule", FALSE),
        st, topo_name)

RECURSIVE TopoKeyLoop(_, _, _, _, _, _)
\* for key, val in topo.items(): lines 686-786
TopoKeyLoop(items, topo_name, topo_base, st, name, seed) ==
    IF items = <<>> \/ ~IsOk(st) THEN st
    ELSE LET key == Head(items)[1]
             val == Head(items)[2]
             rest == Tail(items)
         IN  IF ~HasKey(topo_base, key) THEN Err("KeyError")
             ELSE IF ValEq(key, val, Get(topo_base, key))
             THEN TopoKeyLoop(rest, topo_name, topo_base, st, name, seed)
             ELSE IF key = "FeatureClassNames"
             THEN TopoKeyLoop(rest, topo_name, topo_base,
                      FcNamesDiff(st, topo_name, Get(topo_base, key), val, seed),
                      name, seed)
             ELSE IF key = "TopologyRules"
             THEN TopoKeyLoop(rest, topo_name, topo_base,
                      RulesDiff(st, topo_name, Get(topo_base, key), val),
                      name, seed)
             ELSE TopoKeyLoop(rest, topo_name, topo_base,
                      AppendOrCreate(st.diff, topo_name,
                          << <<name, " has mismatch ", key, " property">>,
                             Get(topo_base, key), val >>),
                      name, seed)

RECURSIVE TopoDiffLoop(_, _, _, _, _)
TopoDiffLoop(diff_test, topo_list_base, st, name, seed) ==
    IF diff_test = <<>> \/ ~IsOk(st) THEN st
    ELSE LET topo == Head(diff_test)
             topo_name == Get(topo, "Name")
             topo_base == BaseByName(topo_list_base, "Name", topo_name)
         IN  IF NoBase(topo_list_base, "Name", topo_name) THEN Err("IndexError") ELSE
             TopoDiffLoop(Tail(diff_test), topo_list_base,
                 TopoKeyLoop(topo, topo_name, topo_base, st, name, seed), name, seed)

\* lines 667-788, from the two parsed lists pb and pt on
ToposCompared(pb, pt, name, seed) ==
    DiffersReturn(pb, pt,
        TopoDiffLoop(MismatchCandidates(pb.list, pt.list, "Name"),
            pb.list, [status |-> "ok", diff |-> <<>>], name, seed))

compare_topo(tb, tt, ds_type, name, seed) ==
    ToposCompared(get_topo_properties(tb, ds_type), get_topo_properties(tt, ds_type),
        name, seed)

----------------------------------------------------------------------------
(* Attribute rules *)

AttrRuleTags ==
    {"Type", "FieldName", "SubtypeCode", "Description", "UserEditable", "IsEnabled",
     "ReferencesExternalService", "ExcludeFromClientEvaluation", "ScriptExpression",
     "TriggeringEvents"}

\* f"{ds_name}: {text}"
RuleKey(ds_name, text) == <<ds_name, ": ", text>>

RECURSIVE AttrRulePropLoop(_, _, _)
\* for i in list(a.getchildren()): lines 805-820
AttrRulePropLoop(nodes, st, ds_name) ==
    IF nodes = <<>> THEN st
    ELSE LET p == Head(nodes) IN
         AttrRulePropLoop(Tail(nodes),
             IF p[1] = "Name"
             THEN [st EXCEPT !.key = RuleKey(ds_name, p[2]), !.key_bound = TRUE]
             ELSE IF p[1] \in AttrRuleTags
             THEN [st EXCEPT !.r_dict = Put(@, p[1], p[2])]
             ELSE st,
             ds_name)

\* line 821: sorted_dict = dict(sorted(r_dict.items()))
RuleSorted(q) ==
    [q EXCEPT !.sorted_dict = SortedItems(q.r_dict), !.sorted_bound = TRUE]

\* line 822: attr_rules_dict[key] = sorted_dict
RuleStored(r) ==
    IF ~r.key_bound \/ ~r.sorted_bound THEN Err("UnboundLocalError")
    ELSE [r EXCEPT !.attr_rules_dict = Put(@, r.key, r.sorted_dict)]

RECURSIVE AttrRuleLoop(_, _)
\* for a in list(prop.getchildren()): lines 801-822
AttrRuleLoop(rules, st) ==
    IF rules = <<>> \/ ~IsOk(st) THEN st
    ELSE AttrRuleLoop(Tail(rules),
             RuleStored(
                 IF Head(rules)[1] = "AttributeRule"
                 THEN RuleSorted(AttrRulePropLoop(Head(rules)[2],
                          [st EXCEPT !.r_dict = << <<"DatasetName", st.ds_name>> >>],
                          st.ds_name))
                 ELSE st))

RECURSIVE AttrPropLoop(_, _)
\* for prop in list(elem.getchildren()): lines 797-822
AttrPropLoop(nodes, st) ==
    IF nodes = <<>> \/ ~IsOk(st) THEN st
    ELSE LET p == Head(nodes) IN
         IF p[1] = "Name" THEN AttrPropLoop(Tail(nodes), [st EXCEPT !.ds_name = p[2]])
         ELSE IF p[1] = "AttributeRules"
         THEN IF st.ds_name = Unbound THEN Err("UnboundLocalError")
              ELSE AttrPropLoop(Tail(nodes), AttrRuleLoop(p[2], st))
         ELSE AttrPropLoop(Tail(nodes), st)

RECURSIVE AttrElemLoop(_, _)
AttrElemLoop(elems, st) ==
    IF elems = <<>> \/ ~IsOk(st) THEN st
    ELSE AttrElemLoop(Tail(elems), AttrPropLoop(Head(elems), st))

\* lines 824-826: sorted(attr_rules_dict.keys()), the dict rebuilt in that order
KeysSorted(r) ==
    IF ~IsOk(r) THEN r
    ELSE [status |-> "ok",
          dict |-> SortedByKeys(r.attr_rules_dict,
                       [i \in DOMAIN r.attr_rules_dict |-> r.attr_rules_dict[i][1]])]

get_attr_rules_properties(tree) ==
    KeysSorted(AttrElemLoop(tree.fcs \o tree.tables,
        [status |-> "ok", attr_rules_dict |-> <<>>, ds_name |-> Unbound,
         key |-> <<>>, key_bound |-> FALSE, r_dict |-> <<>>,
         sorted_dict |-> <<>>, sorted_bound |-> FALSE]))

\* attr_rules_list_base == attr_rules_list_test (dicts of dicts)
AttrRulesEq(a, b) ==
    /\ KeySet(a) = KeySet(b)
    /\ \A k \in KeySet(a) : DictEq(Get(a, k), Get(b, k))

\* "".join(i.split(":")[1:]).strip(), for names without a colon
LabelOf(i) == i[3]

RECURSIVE AttrKeyLoopStale(_, _, _, _)
\* a property loop in which domain_name, once bound, is not assigned again
AttrKeyLoopStale(items, i, prop_test, st) ==
    IF items = <<>> \/ ~IsOk(st) THEN st
    ELSE LET key == Head(items)[1]
             val == Head(items)[2]
         IN  IF ~HasKey(prop_test, key) THEN Err("KeyError")
             ELSE IF val = Get(prop_test, key)
             THEN AttrKeyLoopStale(Tail(items), i, prop_test, st)
             ELSE IF ~HasKey(st.diff, i)
             THEN AttrKeyLoopStale(Tail(items), i, prop_test,
                      [status |-> "ok",
                       domain_name |-> IF st.domain_name = Unbound THEN LabelOf(i)
                                       ELSE st.domain_name,
                       diff |-> Put(st.diff, i,
                                    PyList(<< << <<LabelOf(i), " has mismatch ", key,
                                                   " property">>,
                                                 val, Get(prop_test, key) >> >>))])
             ELSE AttrKeyLoopStale(Tail(items), i, prop_test,
                      [st EXCEPT !.diff =
                          Put(@, i, PyList(Append(Get(@, i).items,
                                  << <<st.domain_name, " has mismatch ", key,
                                       " property">>,
                                     val, Get(prop_test, key) >>)))])

RECURSIVE AttrKeyLoop(_, _, _, _)
\* for key, val in prop_base.items(): lines 855-878
AttrKeyLoop(items, i, prop_test, st) ==
    IF items = <<>> \/ ~IsOk(st) THEN st
    ELSE LET key == Head(items)[1]
             val == Head(items)[2]
         IN  IF ~HasKey(prop_test, key) THEN Err("KeyError")
             ELSE IF val = Get(prop_test, key)
             THEN AttrKeyLoop(Tail(items), i, prop_test, st)
             ELSE IF ~HasKey(st.diff, i)
             THEN AttrKeyLoop(Tail(items), i, prop_test,
                      [status |-> "ok", domain_name |-> LabelOf(i),
                       diff |-> Put(st.diff, i,
                                    PyList(<< << <<LabelOf(i), " has mismatch ", key,
                                                   " property">>,
                                                 val, Get(prop_test, key) >> >>))])
             ELSE IF st.domain_name = Unbound THEN Err("UnboundLocalError")
             ELSE AttrKeyLoop(Tail(items), i, prop_test,
                      [st EXCEPT !.diff =
                          Put(@, i, PyList(Append(Get(@, i).items,
                                  << <<st.domain_name, " has mismatch ", key,
                                       " property">>,
                                     val, Get(prop_test, key) >>)))])

RECURSIVE AttrDiffLoop(_, _, _, _)
\* for i in attr_diff_items: lines 850-878
AttrDiffLoop(keys, base, test, st) ==
    IF keys = <<>> \/ ~IsOk(st) THEN st
    ELSE LET i == Head(keys) IN
         AttrDiffLoop(Tail(keys), base, test,
             IF DictEq(Get(base, i), Get(test, i)) THEN st
             ELSE AttrKeyLoop(Get(base, i), i, Get(test, i), st))

\* line 879: attr_miss and attr_add are bound only where the key lists differ
AttrReturn(base_keys, test_keys, r, seed) ==
    IF ~IsOk(r) THEN r
    ELSE IF base_keys = test_keys THEN Err("UnboundLocalError")
    ELSE Ret(KeySetToList(SeqToSet(base_keys) \ SeqToSet(test_keys), seed),
             r.diff,
             KeySetToList(SeqToSet(test_keys) \ SeqToSet(base_keys), seed))

\* lines 842-879 with the key lists of the two dicts
AttrKeysCompared(base, test, base_keys, test_keys, seed) ==
    AttrReturn(base_keys, test_keys,
        AttrDiffLoop(SelectSeq(base_keys, LAMBDA k : k \in SeqToSet(test_keys)),
            base, test, [status |-> "ok", diff |-> <<>>, domain_name |-> Unbound]),
        seed)

\* list(d.keys())
KeyList(d) == [i \in DOMAIN d |-> d[i][1]]

\* lines 833-879, from the two parsed dicts pb and pt on
AttrRulesCompared(pb, pt, seed) ==
    IF ~IsOk(pb) THEN pb
    ELSE IF ~IsOk(pt) THEN pt
    ELSE IF AttrRulesEq(pb.dict, pt.dict) THEN EmptyRet
    ELSE AttrKeysCompared(pb.dict, pt.dict, KeyList(pb.dict), KeyList(pt.dict), seed)

compare_attr_rules(tb, tt, seed) ==
    AttrRulesCompared(get_attr_rules_properties(tb), get_attr_rules_properties(tt),
        seed)

----------------------------------------------------------------------------
(* write_results_to_xls *)

\* ws.cell(row, col).value = v, as the triple <<row, col, v>>
RECURSIVE MissAddRows(_, _, _, _, _, _)
\* lines 896-903 (col 3, "Missing") and 923-930 (col 4, "Additional")
MissAddRows(items, ws, item_type, dict_key, word, col) ==
    IF items = <<>> THEN ws
    ELSE LET v == IF dict_key # "" THEN Get(Head(items), dict_key) ELSE Head(items)
         IN  MissAddRows(Tail(items),
                 [ws EXCEPT !.writes = @ \o << <<ws.row, 1, v>>,
                                               <<ws.row, 2, <<word, item_type>> >>,
                                               <<ws.row, col, v>> >>,
                            !.row = @ + 1],
                 item_type, dict_key, word, col)

\* the items of one val of val_list, as the loop "for item in val" sees them.
\* An entry stored as a bare tuple is iterated item by item, and each item (a
\* str) character by character: a non-empty str gives its characters, from
\* column 2 on (one cell stands for them), and the empty str gives nothing
ItemsOf(val_list) ==
    IF val_list.type = "list" THEN val_list.items
    ELSE << <<[chars_of |-> val_list.items[1]]>> >>
         \o [k \in 1..2 |-> IF val_list.items[k + 1] = "" THEN <<>>
                            ELSE <<[chars_of |-> val_list.items[k + 1]]>>]

RECURSIVE ValRows(_, _)
\* for val in val_list: for item in val: lines 908-913
ValRows(vals, ws) ==
    IF vals = <<>> THEN ws
    ELSE LET val == Head(vals) IN
         ValRows(Tail(vals),
             [ws EXCEPT !.writes = @ \o [c \in 1..Len(val) |-> <<ws.row, c + 1, val[c]>>],
                        !.row = @ + 1])

\* lines 914-921: the name cells of a key with more than one row are merged
Merged(start_row, w) ==
    IF start_row + 1 < w.row
    THEN [w EXCEPT !.merges = Append(@, <<start_row, w.row - 1>>)]
    ELSE w

RECURSIVE DiffRows(_, _)
\* for key, val_list in diff_dict.items(): lines 905-921
DiffRows(items, ws) ==
    IF items = <<>> THEN ws
    ELSE DiffRows(Tail(items),
             Merged(ws.row,
                 ValRows(ItemsOf(Head(items)[2]),
                     [ws EXCEPT !.writes = Append(@, <<ws.row, 1, Head(items)[1]>>)])))

write_results_to_xls(sheet_name, item_type, dict_key, miss_list, diff_dict, adds_list) ==
    MissAddRows(adds_list,
        DiffRows(diff_dict,
            MissAddRows(miss_list,
                [title |-> sheet_name,
                 writes |-> << <<1, 1, <<item_type, " Name">> >>, <<1, 2, "Difference">>,
                               <<1, 3, "Base">>, <<1, 4, "Test">> >>,
                 merges |-> <<>>, row |-> 2],
                item_type, dict_key, "Missing ", 3)),
        item_type, dict_key, "Additional ", 4)

----------------------------------------------------------------------------
(* The module-level script *)

IgnoreKeys ==
    <<"Feature Class/Table Alias", "Field Alias", "Has M", "Has Z", "Domains",
      "Topology">>

\* lines 949-956
ignore_dict_init == [k \in SeqToSet(IgnoreKeys) |-> FALSE]

RECURSIVE SplitAlsoAtComma(_, _, _)
\* a split that takes a comma for a separator too
SplitAlsoAtComma(str, sep, piece) ==
    IF str = <<>> THEN <<piece>>
    ELSE IF Head(str) \in {sep, ","}
    THEN <<piece>> \o SplitAlsoAtComma(Tail(str), sep, <<>>)
    ELSE SplitAlsoAtComma(Tail(str), sep, Append(piece, Head(str)))

RECURSIVE Split(_, _, _)
\* str.split(sep) of a str given as the sequence of its tokens: the pieces
Split(str, sep, piece) ==
    IF str = <<>> THEN <<piece>>
    ELSE IF Head(str) = sep THEN <<piece>> \o Split(Tail(str), sep, <<>>)
    ELSE Split(Tail(str), sep, Append(piece, Head(str)))

\* str.replace("'", "")
Unquote(piece) == SelectSeq(piece, LAMBDA t : t # "'")

\* whether the piece is one of the keys of ignore_dict
IsIgnoreKey(piece) == Len(piece) = 1 /\ piece[1] \in SeqToSet(IgnoreKeys)

RECURSIVE IgnoreLoopStops(_, _)
\* a loop that warns about the first unknown name and reads no further
IgnoreLoopStops(pieces, st) ==
    IF pieces = <<>> THEN st
    ELSE IF IsIgnoreKey(Unquote(Head(pieces)))
    THEN IgnoreLoopStops(Tail(pieces),
             [st EXCEPT !.ignore_dict[Unquote(Head(pieces))[1]] = TRUE])
    ELSE [st EXCEPT !.warnings =
              Append(@, <<Unquote(Head(pieces)), " Ignore Property unknown">>)]

RECURSIVE IgnoreLoop(_, _)
\* for i in ignore_list: lines 961-966
IgnoreLoop(pieces, st) ==
    IF pieces = <<>> THEN st
    ELSE LET i == Unquote(Head(pieces)) IN
         IgnoreLoop(Tail(pieces),
             IF IsIgnoreKey(i) THEN [st EXCEPT !.ignore_dict[i[1]] = TRUE]
             ELSE [st EXCEPT !.warnings = Append(@, <<i, " Ignore Property unknown">>)])

\* lines 959-966
ParseIgnore(str) ==
    IF str = <<>> THEN [ignore_dict |-> ignore_dict_init, warnings |-> <<>>]
    ELSE IgnoreLoop(Split(str, ";", <<>>),
             [ignore_dict |-> ignore_dict_init, warnings |-> <<>>])

Categories == <<"fds", "fc", "tbl", "rc", "domain", "topo", "attr">>

Unset == [status |-> "unset"]

\* as HasDiff, looking at the mismatch dict alone
HasDiffMismatchOnly(r) == r.diff # <<>>

\* if x_miss or x_diff or x_add
HasDiff(r) == r.miss # <<>> \/ r.diff # <<>> \/ r.add # <<>>

\* the arguments of write_results_to_xls per category
SheetName(c) ==
    CASE c = "fds" -> "Feature Datasets" [] c = "fc" -> "Feature Classes"
      [] c = "tbl" -> "Tables" [] c = "rc" -> "Relationship Classes"
      [] c = "domain" -> "Domains" [] c = "topo" -> "Topologies"
      [] c = "attr" -> "Attribute Rules"

ItemType(c) ==
    CASE c = "fds" -> "Feature Dataset" [] c = "fc" -> "Feature Class"
      [] c = "tbl" -> "Table" [] c = "rc" -> "Relationship Class"
      [] c = "domain" -> "Domain" [] c = "topo" -> "Topology"
      [] c = "attr" -> "Attribute Rule"

DictKey(c) == CASE c = "domain" -> "DomainName" [] c = "attr" -> "" [] OTHER -> "Name"

\* the flags passed to compare_datasets for feature classes, lines 1000-1009
FcFlagsOf(d) ==
    [ds_alias |-> d["Feature Class/Table Alias"],
     fld_alias |-> d["Field Alias"],
     hasm |-> d["Has M"], hasz |-> d["Has Z"]]

FcFlags == FcFlagsOf(ignore_dict)

\* and for tables, lines 1019-1027: the seventh argument is ignore_domains, and
\* ignore_hasz keeps its default
TblFlagsOf(d) ==
    [ds_alias |-> d["Feature Class/Table Alias"],
     fld_alias |-> d["Field Alias"],
     hasm |-> d["Domains"], hasz |-> TRUE]

TblFlags == TblFlagsOf(ignore_dict)

\* a block that, when its differ fails, writes the workbook as far as it got
BlockSavesOnFailure(c, result, next) ==
    /\ pc = c
    /\ rets' = [rets EXCEPT ![c] = result]
    /\ IF ~IsOk(result)
       THEN pc' = "aborted" /\ saved' = save_wb /\ UNCHANGED <<save_wb, wb>>
       ELSE /\ pc' = next
            /\ saved' = saved
            /\ IF HasDiff(result)
               THEN /\ save_wb' = TRUE
                    /\ wb' = Append(wb, write_results_to_xls(SheetName(c), ItemType(c),
                                 DictKey(c), result.miss, result.diff, result.add))
               ELSE UNCHANGED <<save_wb, wb>>
    /\ UNCHANGED <<run, ignore_str, ignore_dict, warnings, tree_base, tree_test,
                   prev_run>>

\* one category block of the script: the call, the test of its result, the sheet
Block(c, result, next) ==
    /\ pc = c
    /\ rets' = [rets EXCEPT ![c] = result]
    /\ IF ~IsOk(result)
       THEN pc' = "aborted" /\ UNCHANGED <<save_wb, wb>>
       ELSE /\ pc' = next
            /\ IF HasDiff(result)
               THEN /\ save_wb' = TRUE
                    /\ wb' = Append(wb, write_results_to_xls(SheetName(c), ItemType(c),
                                 DictKey(c), result.miss, result.diff, result.add))
               ELSE UNCHANGED <<save_wb, wb>>
    /\ UNCHANGED <<run, ignore_str, ignore_dict, warnings, tree_base, tree_test,
                   saved, prev_run>>

Seeds == {0, 1}

\* lines 958-973
ReadIgnore ==
    /\ pc = "ignore"
    /\ ignore_dict' = ParseIgnore(ignore_str).ignore_dict
    /\ warnings' = ParseIgnore(ignore_str).warnings
    /\ pc' = "fds"
    /\ UNCHANGED <<run, ignore_str, tree_base, tree_test, rets, save_wb, wb, saved,
                   prev_run>>

\* lines 986-995
CompareFds ==
    Block("fds", compare_fds(tree_base, tree_test, "esri:DEFeatureDataset",
                     "Feature Dataset"), "fc")

\* lines 998-1014
CompareFc ==
    Block("fc", compare_datasets(tree_base, tree_test, "esri:DEFeatureClass",
                    "Feature Class", FcFlags), "tbl")

\* lines 1017-1030
CompareTables ==
    Block("tbl", compare_datasets(tree_base, tree_test, "esri:DETable", "Table",
                     TblFlags), "rc")

\* lines 1033-1048
CompareRc ==
    Block("rc", compare_relationship_classes(tree_base, tree_test,
                    "esri:DERelationshipClass", "Relationship Class"), "domain")

\* a domains block that does not look at the Domains option
CompareDomainsAlways ==
    \E seed \in Seeds :
        Block("domain", compare_domains(tree_base, tree_test, seed), "topo")

\* lines 1051-1059
CompareDomains ==
    IF ignore_dict["Domains"]
    THEN /\ pc = "domain"
         /\ pc' = "topo"
         /\ UNCHANGED <<run, ignore_str, ignore_dict, warnings, tree_base, tree_test,
                        rets, save_wb, wb, saved, prev_run>>
    ELSE \E seed \in Seeds :
             Block("domain", compare_domains(tree_base, tree_test, seed), "topo")

\* lines 1062-1072
CompareTopo ==
    IF ignore_dict["Topology"]
    THEN /\ pc = "topo"
         /\ pc' = "attr"
         /\ UNCHANGED <<run, ignore_str, ignore_dict, warnings, tree_base, tree_test,
                        rets, save_wb, wb, saved, prev_run>>
    ELSE \E seed \in Seeds :
             Block("topo", compare_topo(tree_base, tree_test, "esri:DETopology",
                               "Topology", seed), "attr")

\* lines 1075-1084
CompareAttrRules ==
    \E seed \in Seeds :
        Block("attr", compare_attr_rules(tree_base, tree_test, seed), "save")

\* lines 1087-1094
Save ==
    /\ pc = "save"
    /\ saved' = save_wb
    /\ pc' = "done"
    /\ UNCHANGED <<run, ignore_str, ignore_dict, warnings, tree_base, tree_test,
                   rets, save_wb, wb, prev_run>>

\* the operator runs the script a second time on the same parameters
RunAgain ==
    /\ pc \in {"done", "aborted"}
    /\ run = 1
    /\ run' = 2
    /\ prev_run' = [pc |-> pc, rets |-> rets, wb |-> wb, saved |-> saved]
    /\ pc' = "ignore"
    /\ ignore_dict' = ignore_dict_init
    /\ warnings' = <<>>
    /\ rets' = [c \in SeqToSet(Categories) |-> Unset]
    /\ save_wb' = FALSE
    /\ wb' = <<>>
    /\ saved' = FALSE
    /\ UNCHANGED <<ignore_str, tree_base, tree_test>>

----------------------------------------------------------------------------
(* The documents the model draws *)

\* the sequences over S of length at most n
SeqsUpTo(S, n) == UNION { [1..k -> S] : k \in 0..n }

\* no two elements of the list carry the same Name: a workspace holds one item
\* per name
DistinctNames(list, NameOf(_)) ==
    \A i, j \in DOMAIN list : i # j => NameOf(list[i]) # NameOf(list[j])

NodeText(elem, tag) == elem[CHOOSE i \in DOMAIN elem : elem[i][1] = tag][2]

ElemName(elem) == NodeText(elem, "Name")

(* fields, in the child order of the export: the Domain element comes last *)
FieldElem(name, type, length, domain) ==
    << <<"Name", name>>, <<"Type", type>>, <<"Length", length>> >>
    \o (IF domain = "" THEN <<>>
        ELSE << <<"Domain", << <<"DomainName", domain>>,
                               <<"FieldType", "esriFieldTypeInteger">> >> >> >>)

OidField == FieldElem("OBJECTID", "esriFieldTypeOID", "4", "")

FieldPool ==
    { OidField,
      FieldElem("OWNER", "esriFieldTypeString", "10", ""),
      FieldElem("owner", "esriFieldTypeString", "10", ""),
      FieldElem("owner", "esriFieldTypeString", "20", ""),
      FieldElem("SPEED", "esriFieldTypeInteger", "4", ""),
      FieldElem("SPEED", "esriFieldTypeInteger", "4", "SpeedLimits"),
      FieldElem("SPEED", "esriFieldTypeInteger", "8", "SpeedLimits") }

FieldLists ==
    { l \in SeqsUpTo(FieldPool, MaxFields) :
          DistinctNames(l, LAMBDA f : Lower(ElemName(f))) }

StdFields == <<OidField, FieldElem("OWNER", "esriFieldTypeString", "10", "")>>

(* subtypes *)
SubtypeElem(name, code) == << <<"SubtypeName", name>>, <<"SubtypeCode", code>> >>

SubtypePool ==
    {SubtypeElem("Paved", "0"), SubtypeElem("Gravel", "1"), SubtypeElem("Gravel", "2")}

SubtypeLists ==
    { l \in SeqsUpTo(SubtypePool, MaxSubtypes) :
          DistinctNames(l, LAMBDA st : NodeText(st, "SubtypeName")) }

NoSubtypes == [fld |-> "", code |-> "", list |-> <<>>]

SubtypeConfigs ==
    {NoSubtypes}
    \cup { [fld |-> "SURFACE", code |-> c, list |-> l] :
              c \in {"0", "1"}, l \in SubtypeLists }

(* attribute rules *)
RuleElem(name, type, enabled) ==
    <<"AttributeRule",
      << <<"Name", name>>, <<"Type", type>>, <<"IsEnabled", enabled>> >> >>

(* feature classes and tables; the first field is listed again, as the index
   section of an export does *)
DataElem(name, dsid, alias, fields, st, rules) ==
    << <<"Name", name>>, <<"DSID", dsid>>, <<"Versioned", "false">> >>
    \o [i \in DOMAIN fields |-> <<"Field", fields[i]>>]
    \o (IF fields = <<>> THEN <<>> ELSE << <<"Field", fields[1]>> >>)
    \o << <<"AliasName", alias>> >>
    \o (IF st.fld = "" THEN <<>>
        ELSE << <<"SubtypeFieldName", st.fld>>, <<"DefaultSubtypeCode", st.code>> >>)
    \o [i \in DOMAIN st.list |-> <<"Subtype", st.list[i]>>]
    \o << <<"HasM", "false">>, <<"HasZ", "false">> >>
    \o (IF rules = <<>> THEN <<>> ELSE << <<"AttributeRules", rules>> >>)

Dsid(name) ==
    CASE name = "Roads" -> "1" [] name = "Parcels" -> "2" [] name = "Buildings" -> "3"
      [] OTHER -> "9"

PlainElem(name, alias) == DataElem(name, Dsid(name), alias, StdFields, NoSubtypes, <<>>)

StdFcs == <<PlainElem("Roads", "Roads"), PlainElem("Parcels", "Parcels")>>
StdTables == <<PlainElem("Inspections", "Inspections")>>

EntityPool ==
    { PlainElem(n, a) : n \in {"Roads", "Parcels"}, a \in {"Alias A", "Alias B"} }
    \cup {PlainElem("Buildings", "Alias A")}

EntityLists == { l \in SeqsUpTo(EntityPool, MaxEntities) : DistinctNames(l, ElemName) }

(* domains *)
CodedValue(name, code) == << <<"Name", name>>, <<"Code", code>> >>

CodedDomain(name, ftype, cvs) ==
    << <<"DomainName", name>>, <<"FieldType", ftype>>, <<"MergePolicy", "esriMPTDefaultValue">>,
       <<"CodedValues", cvs>> >>

RangeDomain(name, ftype, min, max) ==
    << <<"DomainName", name>>, <<"FieldType", ftype>>, <<"MergePolicy", "esriMPTDefaultValue">>,
       <<"MaxValue", max>>, <<"MinValue", min>> >>

CodedValueLists ==
    { <<CodedValue("Active", "1")>>,
      <<CodedValue("Active", "1"), CodedValue("Inactive", "2")>>,
      <<CodedValue("Inactive", "2"), CodedValue("Active", "1")>>,
      <<CodedValue("Active", "1"), CodedValue("Retired", "2")>>,
      <<CodedValue("Active", "1"), CodedValue("Inactive", "2"), CodedValue("Retired", "3")>> }

DomainPool ==
    { CodedDomain("Status", "esriFieldTypeSmallInteger", cvs) : cvs \in CodedValueLists }
    \cup { CodedDomain("Status", "esriFieldTypeInteger",
               <<CodedValue("Active", "1"), CodedValue("Inactive", "2")>>),
           RangeDomain("Status", "esriFieldTypeSmallInteger", "1", "2") }
    \cup { RangeDomain("SpeedLimits", "esriFieldTypeInteger", "0", max) : max \in {"100", "120"} }
    \cup { RangeDomain("SpeedLimits", "esriFieldTypeSmallInteger", "0", "120") }

DomainName(elem) == NodeText(elem, "DomainName")

DomainLists == { l \in SeqsUpTo(DomainPool, MaxEntities) : DistinctNames(l, DomainName) }

StdDomains ==
    << CodedDomain("Status", "esriFieldTypeSmallInteger",
           <<CodedValue("Active", "1"), CodedValue("Inactive", "2")>>),
       RangeDomain("SpeedLimits", "esriFieldTypeInteger", "0", "100") >>

(* relationship classes *)
RcElem(name, card, composite, keytype) ==
    << <<"Name", name>>, <<"Cardinality", card>>, <<"IsComposite", composite>> >>
    \o (IF keytype = "" THEN <<>> ELSE << <<"KeyType", keytype>> >>)

RcPool ==
    { RcElem("ParcelsInspections", c, i, "esriRelKeyTypeSingle") :
          c \in {"esriRelCardinalityOneToMany", "esriRelCardinalityManyToMany"},
          i \in {"false", "true"} }
    \cup { RcElem("ParcelsInspections", "esriRelCardinalityOneToMany", "false", "") }
    \cup { RcElem("RoadsInspections", "esriRelCardinalityOneToMany", "false", k) :
              k \in {"esriRelKeyTypeSingle", "esriRelKeyTypeDual"} }

RcLists == { l \in SeqsUpTo(RcPool, MaxEntities) : DistinctNames(l, ElemName) }

StdRcs == <<RcElem("ParcelsInspections", "esriRelCardinalityOneToMany", "false",
                   "esriRelKeyTypeSingle")>>

(* feature datasets *)
FdsElem(name, versioned, children) ==
    << <<"DatasetType", "esriDTFeatureDataset">>, <<"Name", name>>,
       <<"Children", [i \in DOMAIN children |-> <<"esri:DEFeatureClass", children[i]>>]>>,
       <<"Versioned", versioned>>, <<"CanVersion", versioned>> >>

FdsPool ==
    { FdsElem("Transport", v, ch) :
          v \in {"false", "true"}, ch \in {<<"Roads">>, <<"Roads", "Parcels">>} }
    \cup { FdsElem("Utilities", "false", <<>>), FdsElem("Utilities", "true", <<>>) }

FdsLists == { l \in SeqsUpTo(FdsPool, MaxEntities) : DistinctNames(l, ElemName) }

StdFds == <<FdsElem("Transport", "false", <<"Roads">>)>>

(* topologies *)
TopoRule(type, origin, dest) ==
    << <<"TopologyRuleType", type>>, <<"OriginClassID", origin>>, <<"OriginSubtype", "0">>,
       <<"DestinationClassID", dest>>, <<"DestinationSubtype", "0">> >>

NoOverlapRoads == TopoRule("esriTRTLineNoOverlap", "1", "1")
NoOverlapParcels == TopoRule("esriTRTAreaNoOverlap", "2", "2")
CoveredByRule == TopoRule("esriTRTAreaCoveredByArea", "2", "1")
\* a rule on a class ID that no feature class of the document carries
UnknownClassRule == TopoRule("esriTRTAreaNoOverlap", "3", "3")

TopoElem(name, tol, fcs, rules) ==
    << <<"Name", name>>, <<"ClusterTolerance", tol>>, <<"FeatureClassNames", fcs>>,
       <<"TopologyRules", rules>> >>

StdTopoRules == <<NoOverlapRoads, NoOverlapParcels>>

TopoPool ==
    { TopoElem("RoadNet", tol, <<"Roads", "Parcels">>, StdTopoRules) :
          tol \in {"0.001", "0.01"} }
    \cup { TopoElem("RoadNet", "0.001", fcs, StdTopoRules) :
              fcs \in {<<>>, <<"Roads">>, <<"Parcels", "Roads">>, <<"Buildings", "Roads">>} }
    \cup { TopoElem("RoadNet", "0.001", <<"Roads", "Parcels">>, rules) :
              rules \in {<<>>, <<NoOverlapParcels, NoOverlapRoads>>, <<CoveredByRule>>,
                         <<NoOverlapRoads, UnknownClassRule>>} }
    \cup { TopoElem("WaterNet", "0.001", <<"Parcels">>, <<NoOverlapParcels>>) }

TopoLists == { l \in SeqsUpTo(TopoPool, MaxEntities) : DistinctNames(l, ElemName) }

StdTopos == <<TopoElem("RoadNet", "0.001", <<"Roads", "Parcels">>, StdTopoRules)>>

(* attribute rules of the feature classes *)
RoadRulePool ==
    { RuleElem("CalcLength", "esriARTCalculation", "true"),
      RuleElem("CalcLength", "esriARTCalculation", "false"),
      RuleElem("CalcLength", "esriARTConstraint", "false"),
      RuleElem("CheckSpeed", "esriARTConstraint", "true"),
      RuleElem("CheckSpeed", "esriARTCalculation", "false") }

RoadRuleLists ==
    { l \in SeqsUpTo(RoadRulePool, MaxEntities) :
          DistinctNames(l, LAMBDA a : ElemName(a[2])) }

ParcelRuleLists == { <<>>, <<RuleElem("CalcArea", "esriARTCalculation", "true")>> }

RuledFcs(road_rules, parcel_rules) ==
    << DataElem("Roads", "1", "Roads", StdFields, NoSubtypes, road_rules),
       DataElem("Parcels", "2", "Parcels", StdFields, NoSubtypes, parcel_rules) >>

(* whole documents *)
StdTree ==
    [fds |-> StdFds, fcs |-> StdFcs, tables |-> StdTables, rcs |-> StdRcs,
     domains |-> StdDomains, topos |-> StdTopos]

RoadsWith(fields, st) ==
    <<DataElem("Roads", "1", "Roads", fields, st, <<>>), PlainElem("Parcels", "Parcels")>>

\* the Ignore Options parameter, as the tokens of its text
IgnoreStrings ==
    { <<>>, <<"Domains">>, <<"Topology">>, <<"Domains", ";", "Topology">>,
      <<"Domains", ",", "Topology">>, <<"'", "Has M", "'", ";", "Domains">>,
      <<"Feature Class/Table Alias", ";", "Field Alias", ";", "Has Z">>,
      <<"Bogus">>, <<"Bogus", ";", "Domains">>,
      <<"Topology", ";", "Bogus", ";", "Has Z">> }

\* the element with its HasM flag set to v
WithHasM(elem, v) ==
    [i \in DOMAIN elem |-> IF elem[i][1] = "HasM" THEN <<"HasM", v>> ELSE elem[i]]

\* the standard tables, measured
MeasuredTables == [i \in DOMAIN StdTables |-> WithHasM(StdTables[i], "true")]

\* per category, a test document that differs from the standard one
ChangedTree ==
    [fds |-> <<FdsElem("Transport", "true", <<"Roads">>)>>,
     fcs |-> <<PlainElem("Roads", "Highways"), PlainElem("Parcels", "Parcels")>>,
     tables |-> <<>>,
     rcs |-> <<RcElem("ParcelsInspections", "esriRelCardinalityManyToMany", "false",
                      "esriRelKeyTypeSingle")>>,
     domains |-> <<StdDomains[1]>>,
     topos |-> <<TopoElem("RoadNet", "0.01", <<"Roads", "Parcels">>, StdTopoRules)>>]

\* a topology with a rule on a class the document lacks
BrokenTopos ==
    <<TopoElem("RoadNet", "0.001", <<"Roads", "Parcels">>,
          <<NoOverlapRoads, UnknownClassRule>>)>>

TreeKeys == {"fds", "fcs", "tables", "rcs", "domains", "topos"}

NoRun == [pc |-> "none", rets |-> <<>>, wb |-> <<>>, saved |-> FALSE]

\* the state at line 947, before the parameters are read
Start(base, test, ignore) ==
    /\ tree_base = base
    /\ tree_test = test
    /\ ignore_str = ignore
    /\ pc = "ignore"
    /\ run = 1
    /\ ignore_dict = ignore_dict_init
    /\ warnings = <<>>
    /\ rets = [c \in SeqToSet(Categories) |-> Unset]
    /\ save_wb = FALSE
    /\ wb = <<>>
    /\ saved = FALSE
    /\ prev_run = NoRun

Init ==
    \/ \E b, t \in FieldLists :
           Start([StdTree EXCEPT !.fcs = RoadsWith(b, NoSubtypes)],
                 [StdTree EXCEPT !.fcs = RoadsWith(t, NoSubtypes)], <<>>)
    \/ \E b, t \in SubtypeConfigs :
       \E f \in {StdFields, <<OidField>>} :
           Start([StdTree EXCEPT !.fcs = RoadsWith(StdFields, b)],
                 [StdTree EXCEPT !.fcs = RoadsWith(f, t)], <<>>)
    \/ \E b, t \in EntityLists :
           Start([StdTree EXCEPT !.tables = b], [StdTree EXCEPT !.tables = t], <<>>)
    \/ \E b, t \in DomainLists :
           Start([StdTree EXCEPT !.domains = b], [StdTree EXCEPT !.domains = t], <<>>)
    \/ \E b, t \in RcLists :
           Start([StdTree EXCEPT !.rcs = b], [StdTree EXCEPT !.rcs = t], <<>>)
    \/ \E b, t \in FdsLists :
           Start([StdTree EXCEPT !.fds = b], [StdTree EXCEPT !.fds = t], <<>>)
    \/ \E b, t \in TopoLists :
           Start([StdTree EXCEPT !.topos = b], [StdTree EXCEPT !.topos = t], <<>>)
    \/ \E rb, rt \in RoadRuleLists : \E pb, pt \in ParcelRuleLists :
           Start([StdTree EXCEPT !.fcs = RuledFcs(rb, pb)],
                 [StdTree EXCEPT !.fcs = RuledFcs(rt, pt)], <<>>)
    \/ \E ignore \in IgnoreStrings :
           Start(StdTree, [StdTree EXCEPT !.tables = MeasuredTables], ignore)
    \/ \E ignore \in {<<>>, <<"Topology">>} :
           Start(StdTree,
                 [StdTree EXCEPT !.fcs = ChangedTree.fcs, !.topos = BrokenTopos],
                 ignore)
    \/ \E changed \in SUBSET TreeKeys : \E ignore \in IgnoreStrings :
           Start(StdTree,
                 [k \in TreeKeys |-> IF k \in changed THEN ChangedTree[k] ELSE StdTree[k]],
                 ignore)

Next ==
    \/ ReadIgnore
    \/ CompareFds
    \/ CompareFc
    \/ CompareTables
    \/ CompareRc
    \/ CompareDomains
    \/ CompareTopo
    \/ CompareAttrRules
    \/ Save

Spec == Init /\ [][Next]_vars

\* the same, with the script run twice on the same parameters
SpecTwoRuns == Init /\ [][Next \/ RunAgain]_vars

----------------------------------------------------------------------------
(* Properties *)

ListCategories == {"fds", "fc", "tbl", "rc", "domain", "topo"}

\* the key that names an entity of the category
NameKey(c) == IF c = "domain" THEN "DomainName" ELSE "Name"

\* the normalized collection the differ of category c reads from a document
Parsed(c, tree) ==
    CASE c = "fds" -> get_fds_properties(tree, "esri:DEFeatureDataset")
      [] c = "fc" -> get_dataset_properties(tree, "esri:DEFeatureClass", FcFlags)
      [] c = "tbl" -> get_dataset_properties(tree, "esri:DETable", TblFlags)
      [] c = "rc" -> get_rc_properties(tree, "esri:DERelationshipClass")
      [] c = "domain" -> get_domain_properties(tree)
      [] c = "topo" -> get_topo_properties(tree, "esri:DETopology")
      [] c = "attr" -> get_attr_rules_properties(tree)

Compared(c) == rets[c].status # "unset"

\* the value pc takes when the block of category c has run to its end
After(c) ==
    CASE c = "fds" -> "fc" [] c = "fc" -> "tbl" [] c = "tbl" -> "rc" [] c = "rc" -> "domain"
      [] c = "domain" -> "topo" [] c = "topo" -> "attr" [] c = "attr" -> "save"

\* the block of category c has just stored its result: rets[c] is assigned once per
\* run, so what holds of it here holds of it until the run ends
Returned(c) == Compared(c) /\ pc \in {After(c), "aborted"}

IsEmptyTriple(r) == IsOk(r) /\ r.miss = <<>> /\ r.diff = <<>> /\ r.add = <<>>

\* the names the entities of a parsed collection carry
ParsedNames(c, parsed) ==
    IF c = "attr" THEN KeySet(parsed.dict)
    ELSE { Get(parsed.list[i], NameKey(c)) : i \in DOMAIN parsed.list }

\* the names a missingList or additionalList of category c reports
ReportedNames(c, list) ==
    IF c = "attr" THEN SeqToSet(list)
    ELSE { Get(list[i], NameKey(c)) : i \in DOMAIN list }

\* C1: for each of the seven differs, when base and test normalize to the same
\* collection the differ returns exactly ([], {}, [])
C1_SelfCompareIsEmpty ==
    \A c \in SeqToSet(Categories) :
        Returned(c)
        => LET pb == Parsed(c, tree_base) IN
           (IsOk(pb) /\ pb = Parsed(c, tree_test)) => IsEmptyTriple(rets[c])

\* a completed run in which all seven differs compared a non-empty collection
\* with an equal one
C1_Witness ==
    /\ pc = "done"
    /\ \A c \in SeqToSet(Categories) :
           /\ IsOk(rets[c])
           /\ Parsed(c, tree_base) = Parsed(c, tree_test)
    /\ \A c \in ListCategories : Parsed(c, tree_base).list # <<>>
    /\ Parsed("attr", tree_base).dict # <<>>

\* C2: for the list-based differs, whenever base and test differ and the differ
\* returns, missingList is exactly the base entities whose Name no test entity
\* carries, and additionalList exactly the test entities whose Name no base
\* entity carries (both in list order)
C2_MissingAdditionalByName ==
    \A c \in ListCategories :
        (Returned(c) /\ IsOk(rets[c]))
        => LET b == Parsed(c, tree_base).list
               t == Parsed(c, tree_test).list
               nk == NameKey(c)
           IN  b # t
               => /\ rets[c].miss =
                         SelectSeq(b, LAMBDA e :
                             \A j \in DOMAIN t : Get(t[j], nk) # Get(e, nk))
                  /\ rets[c].add =
                         SelectSeq(t, LAMBDA e :
                             \A j \in DOMAIN b : Get(b[j], nk) # Get(e, nk))

\* a differ returned a missing entity, an additional entity and a mismatch at once
C2_Witness ==
    \E c \in ListCategories :
        /\ IsOk(rets[c])
        /\ rets[c].miss # <<>>
        /\ rets[c].add # <<>>
        /\ rets[c].diff # <<>>

\* C3: every key of a returned mismatchDict is a Name present in both base and
\* test; a Name only in base is in missingList, a Name only in test is in
\* additionalList, and neither is a mismatchDict key
C3_MismatchKeysAreShared ==
    \A c \in SeqToSet(Categories) :
        (Returned(c) /\ IsOk(rets[c]))
        => LET nb == ParsedNames(c, Parsed(c, tree_base))
               nt == ParsedNames(c, Parsed(c, tree_test))
           IN  /\ KeySet(rets[c].diff) \subseteq (nb \cap nt)
               /\ (nb \ nt) \subseteq ReportedNames(c, rets[c].miss)
               /\ (nt \ nb) \subseteq ReportedNames(c, rets[c].add)

\* the tables differ met a renamed table: one Name only in base, one only in test,
\* and no mismatch recorded
C3_Witness ==
    /\ IsOk(rets["tbl"])
    /\ rets["tbl"].miss # <<>>
    /\ rets["tbl"].add # <<>>
    /\ rets["tbl"].diff = <<>>

\* C4: compare_datasets never fails on a tuple it stored itself, and every value
\* of the mismatchDict it returns is a list of triples
C4_MismatchValuesAreLists ==
    \A c \in {"fc", "tbl"} :
        /\ (Compared(c) /\ ~IsOk(rets[c])) => rets[c].error # "AttributeError"
        /\ IsOk(rets[c])
           => \A i \in DOMAIN rets[c].diff : rets[c].diff[i][2].type = "list"

HasDomainElem(tree, elem) == \E i \in DOMAIN tree.domains : tree.domains[i] = elem

StatusDomain(second) ==
    CodedDomain("Status", "esriFieldTypeSmallInteger",
        <<CodedValue("Active", "1"), CodedValue(second, "2")>>)

\* base has Status{1: Active, 2: Inactive}, test has Status{1: Active, 2: Retired}
Scenario1 ==
    /\ HasDomainElem(tree_base, StatusDomain("Inactive"))
    /\ HasDomainElem(tree_test, StatusDomain("Retired"))

\* C5: in scenario 1 compare_domains records for Status exactly one triple,
\* ("Domain has additional and missing CodedValues", {2: Inactive}, {2: Retired}),
\* both payloads keyed code -> description
C5_AdditionalAndMissingCodedValues ==
    (Compared("domain") /\ Scenario1)
    => /\ IsOk(rets["domain"])
       /\ HasKey(rets["domain"].diff, "Status")
       /\ Get(rets["domain"].diff, "Status") =
              PyList(<< << <<"Domain has ", "additional and missing", " CodedValues">>,
                           StrOf(<< <<"2", "Inactive">> >>),
                           StrOf(<< <<"2", "Retired">> >>) >> >>)

HasField(elem, fld) == \E k \in DOMAIN elem : elem[k][1] = "Field" /\ elem[k][2] = fld

HasFcWithField(tree, name, fld) ==
    \E i \in DOMAIN tree.fcs : ElemName(tree.fcs[i]) = name /\ HasField(tree.fcs[i], fld)

\* Roads is in both documents; its field SPEED has the domain SpeedLimits in base
\* and no domain in test
Scenario2 ==
    /\ HasFcWithField(tree_base, "Roads",
           FieldElem("SPEED", "esriFieldTypeInteger", "4", "SpeedLimits"))
    /\ HasFcWithField(tree_test, "Roads",
           FieldElem("SPEED", "esriFieldTypeInteger", "4", ""))

\* whether the feature-class differ recorded the triple t for Roads
RoadsTriple(t) ==
    /\ IsOk(rets["fc"])
    /\ HasKey(rets["fc"].diff, "Roads")
    /\ Get(rets["fc"].diff, "Roads").type = "list"
    /\ \E k \in DOMAIN Get(rets["fc"].diff, "Roads").items :
           Get(rets["fc"].diff, "Roads").items[k] = t

\* C6 as stated: in scenario 2 the triple for Roads is
\* ("SPEED field has different values for Domain", "SpeedLimits", "")
C6_LabelAsWritten ==
    (Compared("fc") /\ Scenario2)
    => RoadsTriple(<< <<"SPEED", " field has different values for ", "Domain">>,
                      "SpeedLimits", "" >>)

\* C6: in scenario 2 the triple for Roads is
\* ("speed field has different values for Domain", "SpeedLimits", ""): the label
\* carries the field name in lower case
C6_LabelLowerCase ==
    (Compared("fc") /\ Scenario2)
    => RoadsTriple(<< <<"speed", " field has different values for ", "Domain">>,
                      "SpeedLimits", "" >>)

C6_Witness == Compared("fc") /\ Scenario2 /\ pc = "done"

\* the categories whose differ returned something that is not all empty
Differing ==
    SelectSeq(Categories, LAMBDA c :
        IsOk(rets[c])
        /\ (rets[c].miss # <<>> \/ rets[c].diff # <<>> \/ rets[c].add # <<>>))

\* C7: at the end of a run the workbook is saved iff some compared category
\* returned a non-empty list or dict; a saved workbook holds exactly one sheet per
\* such category, none for an identical or skipped one; nothing is written when
\* every category compares identical
C7_WorkbookIffDifference ==
    pc = "done"
    => /\ saved <=> Differing # <<>>
       /\ [i \in DOMAIN wb |-> wb[i].title]
              = [i \in DOMAIN Differing |-> SheetName(Differing[i])]

\* a saved workbook of at least two sheets, after a run in which one category
\* compared identical and one was skipped
C7_Witness ==
    /\ pc = "done"
    /\ saved
    /\ Len(wb) >= 2
    /\ \E c \in SeqToSet(Categories) : IsEmptyTriple(rets[c])
    /\ \E c \in SeqToSet(Categories) : ~Compared(c)

\* C8: compare_attr_rules returns a triple for every pair of inputs; when base and
\* test hold the same rule keys and a shared rule differs, missingList and
\* additionalList are empty and mismatchDict holds the key of the rule
C8_AttrRulesReturnsTriple ==
    Returned("attr")
    => LET pb == Parsed("attr", tree_base)
           pt == Parsed("attr", tree_test)
       IN  (IsOk(pb) /\ IsOk(pt))
           => /\ IsOk(rets["attr"])
              /\ (KeySet(pb.dict) = KeySet(pt.dict) /\ pb.dict # pt.dict)
                 => /\ rets["attr"].miss = <<>>
                    /\ rets["attr"].add = <<>>
                    /\ \E k \in KeySet(rets["attr"].diff) :
                           Get(pb.dict, k) # Get(pt.dict, k)

\* C9: a second run on the same documents and the same ignore options ends as the
\* first did: same outcome, same triples in the same order, same sheets
C9_SecondRunSame ==
    (run = 2 /\ pc \in {"done", "aborted"})
    => /\ prev_run.pc = pc
       /\ prev_run.saved = saved
       /\ \A c \in SeqToSet(Categories) : prev_run.rets[c] = rets[c]
       /\ prev_run.wb = wb

OwnerField(name) == FieldElem(name, "esriFieldTypeString", "10", "")

\* Roads is in both documents; its field is named OWNER in base and owner in test,
\* with equal properties
Scenario3 ==
    /\ HasFcWithField(tree_base, "Roads", OwnerField("OWNER"))
    /\ HasFcWithField(tree_test, "Roads", OwnerField("owner"))

\* C10: in scenario 3 compare_datasets records for the field neither a "Missing
\* field" nor an "Additional field" triple, and no triple for its Name
C10_FieldNameCaseInsensitive ==
    (Compared("fc") /\ Scenario3)
    => /\ IsOk(rets["fc"])
       /\ (HasKey(rets["fc"].diff, "Roads") /\ Get(rets["fc"].diff, "Roads").type = "list")
          => \A k \in DOMAIN Get(rets["fc"].diff, "Roads").items :
                 LET t == Get(rets["fc"].diff, "Roads").items[k] IN
                 /\ ~(t[1] = <<"Missing field">> /\ t[2] \in {"OWNER", "owner"})
                 /\ ~(t[1] = <<"Additional field">> /\ t[3] \in {"OWNER", "owner"})
                 /\ ~(Len(t[1]) = 3 /\ t[1][1] \in {"OWNER", "owner"} /\ t[1][3] = "Name")

\* scenario 3 with another field of Roads changed, so that Roads has a mismatch
\* entry
C10_Witness ==
    /\ Compared("fc")
    /\ Scenario3
    /\ HasKey(rets["fc"].diff, "Roads")

\* the Field elements of the feature class called name, in document order
FieldsOfFc(tree, name) ==
    UNION { { tree.fcs[i][k][2] : k \in { k \in DOMAIN tree.fcs[i] :
                                            tree.fcs[i][k][1] = "Field" } } :
            i \in { i \in DOMAIN tree.fcs : ElemName(tree.fcs[i]) = name } }

\* the fields of Roads that base and test both carry (same name up to case, same
\* Type) with a different Length; text selects the esriFieldTypeString ones
LengthChanged(text) ==
    { p \in FieldsOfFc(tree_base, "Roads") \X FieldsOfFc(tree_test, "Roads") :
          /\ Lower(ElemName(p[1])) = Lower(ElemName(p[2]))
          /\ NodeText(p[1], "Type") = NodeText(p[2], "Type")
          /\ (NodeText(p[1], "Type") = "esriFieldTypeString") = text
          /\ NodeText(p[1], "Length") # NodeText(p[2], "Length") }

\* the label of a field-property triple
FieldLabel(fld, prop) == <<Lower(ElemName(fld)), " field has different values for ", prop>>

\* C11: with IGNORE_LEN_NON_TEXT_FIELDS set, when Roads is in both documents with
\* a text field and a non-text field that each changed Length, compare_datasets
\* records the "<field> field has different values for Length" triple of the text
\* field, with the two lengths, and no Length triple for the non-text field
C11_TextLengthOnly ==
    (IGNORE_LEN_NON_TEXT_FIELDS /\ Compared("fc")
     /\ LengthChanged(TRUE) # {} /\ LengthChanged(FALSE) # {})
    => /\ \A p \in LengthChanged(TRUE) :
              RoadsTriple(<< FieldLabel(p[1], "Length"),
                             NodeText(p[1], "Length"), NodeText(p[2], "Length") >>)
       /\ \A p \in LengthChanged(FALSE) :
              \A k \in DOMAIN Get(rets["fc"].diff, "Roads").items :
                  Get(rets["fc"].diff, "Roads").items[k][1] # FieldLabel(p[1], "Length")

\* the feature-class differ returned for a Roads whose text field and whose
\* non-text field both changed Length
C11_Witness ==
    /\ IsOk(rets["fc"])
    /\ pc = "done"
    /\ LengthChanged(TRUE) # {}
    /\ LengthChanged(FALSE) # {}

\* the option names of the Ignore Options parameter: its pieces between
\* semicolons, quotes dropped
OptionNames ==
    IF ignore_str = <<>> THEN <<>>
    ELSE LET pieces == Split(ignore_str, ";", <<>>)
         IN  [i \in DOMAIN pieces |-> Unquote(pieces[i])]

\* those that are none of the six recognized options
UnknownNames == SelectSeq(OptionNames, LAMBDA n : ~IsIgnoreKey(n))

\* C12: when the option string holds a name that is none of the six recognized
\* options, each such name gives one warning and nothing else: every recognized
\* name of the string has its flag set, every flag not named stays false, and the
\* run goes on (it ends early only where a differ failed)
C12_UnknownOptionWarnsOnly ==
    (pc # "ignore" /\ UnknownNames # <<>>)
    => /\ warnings = [i \in DOMAIN UnknownNames |->
                         <<UnknownNames[i], " Ignore Property unknown">>]
       /\ \A k \in SeqToSet(IgnoreKeys) :
              ignore_dict[k] <=> (\E i \in DOMAIN OptionNames : OptionNames[i] = <<k>>)
       /\ pc = "aborted" => \E c \in SeqToSet(Categories) : Compared(c) /\ ~IsOk(rets[c])

\* a run that read an unknown name between two recognized ones, and ended
C12_Witness ==
    /\ pc = "done"
    /\ Len(warnings) = 1
    /\ ignore_dict["Topology"]
    /\ ignore_dict["Has Z"]
    /\ ~ignore_dict["Domains"]

\* the Ignore Options text "Domains<sep>Topology"
DomainsTopology(sep) == <<"Domains", sep, "Topology">>

\* C13 as stated: for "Domains,Topology" as for "Domains;Topology" the Domains
\* and the Topology flags are both set
C13_CommaOrSemicolon ==
    (pc # "ignore" /\ ignore_str \in {DomainsTopology(","), DomainsTopology(";")})
    => (ignore_dict["Domains"] /\ ignore_dict["Topology"])

\* C13: "Domains;Topology" sets the Domains and the Topology flags and warns of
\* nothing; a comma does not separate names: "Domains,Topology" is read as one
\* unknown name, which gives one warning and leaves all six flags false
C13_SemicolonOnly ==
    pc # "ignore"
    => /\ ignore_str = DomainsTopology(";")
          => /\ ignore_dict = [k \in SeqToSet(IgnoreKeys) |-> k \in {"Domains", "Topology"}]
             /\ warnings = <<>>
       /\ ignore_str = DomainsTopology(",")
          => /\ ignore_dict = ignore_dict_init
             /\ warnings = << <<DomainsTopology(","), " Ignore Property unknown">> >>

\* a run on "Domains,Topology" that ended having compared domains and topologies
C13_Witness ==
    /\ pc = "done"
    /\ ignore_str = DomainsTopology(",")
    /\ Compared("domain")
    /\ Compared("topo")

\* the place of a category in the order Feature Datasets, Feature Classes, Tables,
\* Relationship Classes, Domains, Topologies, Attribute Rules
CatIndex(c) == CHOOSE i \in DOMAIN Categories : Categories[i] = c

\* the option that makes the script pass over category c is enabled
Skipped(c) ==
    \/ c = "domain" /\ ignore_dict["Domains"]
    \/ c = "topo" /\ ignore_dict["Topology"]

\* the script has gone past the block of category c
Passed(c) ==
    \/ \E i \in DOMAIN Categories : (Categories[i] = pc /\ CatIndex(c) < i)
    \/ pc \in {"save", "done"}

\* C14: the differs are invoked in the order of Categories: when one has been
\* invoked, every earlier one has been invoked or is skipped by its option;
\* Domains is passed over exactly when the Domains option is enabled, Topologies
\* exactly when the Topology option is, and no other category is passed over
C14_FixedOrder ==
    /\ \A c1, c2 \in SeqToSet(Categories) :
           (CatIndex(c1) < CatIndex(c2) /\ Compared(c2))
           => (Compared(c1) \/ Skipped(c1))
    /\ \A c \in SeqToSet(Categories) :
           /\ Compared(c) => (~Skipped(c) /\ (Passed(c) \/ pc = "aborted"))
           /\ Passed(c) => (Compared(c) <=> ~Skipped(c))

\* a run that ended having skipped Domains by its option and compared the six
\* other categories
C14_Witness ==
    /\ pc = "done"
    /\ ignore_dict["Domains"]
    /\ ~ignore_dict["Topology"]
    /\ \A c \in SeqToSet(Categories) : Compared(c) <=> c # "domain"

\* the orders in which the elements of s can appear
OrdersOf(s) ==
    { [i \in DOMAIN s |-> s[f[i]]] :
          f \in { g \in [DOMAIN s -> DOMAIN s] : \A i, j \in DOMAIN s : i # j => g[i] # g[j] } }

\* the part of a document that holds the entities of category c
TreeKey(c) ==
    CASE c = "fds" -> "fds" [] c = "fc" -> "fcs" [] c = "tbl" -> "tables"
      [] c = "rc" -> "rcs" [] c = "domain" -> "domains" [] c = "topo" -> "topos"
      [] c = "attr" -> "fcs"

\* the documents got from tree by reordering the entities of category c
Reordered(c, tree) ==
    { [tree EXCEPT ![TreeKey(c)] = p] : p \in OrdersOf(tree[TreeKey(c)]) }

\* what the differ of category c returns for the normalized collections pb and pt
DifferOn(c, pb, pt, seed) ==
    CASE c = "fds" -> FdsCompared(pb, pt, "Feature Dataset")
      [] c = "fc" -> DatasetsCompared(pb, pt, "Feature Class")
      [] c = "tbl" -> DatasetsCompared(pb, pt, "Table")
      [] c = "rc" -> RcsCompared(pb, pt, "Relationship Class")
      [] c = "domain" -> DomainsCompared(pb, pt, seed)
      [] c = "topo" -> ToposCompared(pb, pt, "Topology", seed)
      [] c = "attr" -> AttrRulesCompared(pb, pt, seed)

\* the names of a normalized collection, in its order
NameList(c, parsed) ==
    IF c = "attr" THEN [i \in DOMAIN parsed.dict |-> parsed.dict[i][1]]
    ELSE [i \in DOMAIN parsed.list |-> <<Get(parsed.list[i], NameKey(c))>>]

\* a normalized collection is in ascending order of Name
SortedByName(c, parsed) ==
    \A i, j \in DOMAIN NameList(c, parsed) :
        i < j => LexLess(NameList(c, parsed)[i], NameList(c, parsed)[j])

\* the Name an element of category c carries in the document
ElemNameOf(c, elem) == NodeText(elem, NameKey(c))

\* the collection there, read from a reordered document, is the collection here
\* and is sorted by Name, and the differ gives rets[c] for the pair pb, pt that
\* holds it
SameInOrder(c, here, there, pb, pt) ==
    /\ there = here
    /\ IsOk(there) => SortedByName(c, there)
    /\ \E seed \in Seeds : DifferOn(c, pb, pt, seed) = rets[c]

\* SameInOrder for a reordered base document (the pair is there, other) or a
\* reordered test document (the pair is other, there)
OrderFreeAt(c, here, there, other, base_side) ==
    IF base_side THEN SameInOrder(c, here, there, there, other)
    ELSE SameInOrder(c, here, there, other, there)

\* reordering either document changes neither its collection pb or pt nor rets[c]
OrderFree(c, pb, pt) ==
    /\ \A tb \in Reordered(c, tree_base) : OrderFreeAt(c, pb, Parsed(c, tb), pt, TRUE)
    /\ \A tt \in Reordered(c, tree_test) : OrderFreeAt(c, pt, Parsed(c, tt), pb, FALSE)

\* C15: whatever the order of the entities of a category in the base or in the
\* test document, the normalized collection is the same and is sorted by Name,
\* and the differ returns what it returned for the order at hand
C15_OrderIndependent ==
    \A c \in SeqToSet(Categories) :
        (Returned(c) /\ pc # "aborted")
        => OrderFree(c, Parsed(c, tree_base), Parsed(c, tree_test))

\* a differ returned a mismatch for documents that list two entities of its
\* category in different orders
C15_Witness ==
    \E c \in ListCategories :
        /\ Returned(c)
        /\ IsOk(rets[c])
        /\ rets[c].diff # <<>>
        /\ Len(tree_base[TreeKey(c)]) = 2
        /\ Len(tree_test[TreeKey(c)]) = 2
        /\ ElemNameOf(c, tree_base[TreeKey(c)][1]) = ElemNameOf(c, tree_test[TreeKey(c)][2])
        /\ ElemNameOf(c, tree_base[TreeKey(c)][2]) = ElemNameOf(c, tree_test[TreeKey(c)][1])

\* the properties of entity t that its base counterpart b holds with another value
\* (coded values apart)
DifferingKeys(b, t) ==
    { k \in KeySet(t) \ {"CodedValues"} : HasKey(b, k) /\ Get(b, k) # Get(t, k) }

\* the label of a property-mismatch triple of category c
MismatchLabel(c, k) ==
    IF c = "domain" THEN <<"Domain has mismatch ", k, " property">>
    ELSE <<"Relationship Class", " has mismatch ", k, " property">>

\* the property-mismatch triples among items
PropertyTriples(c, items) ==
    SelectSeq(items, LAMBDA t : \E k \in {"FieldType", "MergePolicy", "SplitPolicy",
                                         "Range", "Cardinality", "IsComposite",
                                         "KeyType"} : t[1] = MismatchLabel(c, k))

\* C16: for a relationship class, and for the properties of a domain other than
\* its coded values, under the same Name in base and test with k >= 2 properties
\* of different value, the mismatch list of that Name holds exactly k property
\* triples, one per differing property
C16_OneTriplePerProperty ==
    \A c \in {"rc", "domain"} :
        (Returned(c) /\ IsOk(rets[c]))
        => LET b == Parsed(c, tree_base).list
               t == Parsed(c, tree_test).list
           IN  \A i \in DOMAIN b, j \in DOMAIN t :
                   (/\ Get(b[i], NameKey(c)) = Get(t[j], NameKey(c))
                    /\ KeySet(b[i]) = KeySet(t[j])
                    /\ Cardinality(DifferingKeys(b[i], t[j])) >= 2)
                   => /\ HasKey(rets[c].diff, Get(t[j], NameKey(c)))
                      /\ Len(PropertyTriples(c,
                             Get(rets[c].diff, Get(t[j], NameKey(c))).items))
                             = Cardinality(DifferingKeys(b[i], t[j]))
                      /\ \A k \in DifferingKeys(b[i], t[j]) :
                             \E n \in DOMAIN Get(rets[c].diff, Get(t[j], NameKey(c))).items :
                                 Get(rets[c].diff, Get(t[j], NameKey(c))).items[n] =
                                     <<MismatchLabel(c, k), Get(b[i], k), Get(t[j], k)>>

\* the properties of the normalized topology t whose value differs from that of
\* its base counterpart b
TopoDifferingKeys(b, t) == { k \in KeySet(t) : ~ValEq(k, Get(t, k), Get(b, k)) }

\* the elements of the list x that the list y does not hold
OnlyIn(x, y) == SelectSeq(x, LAMBDA e : \A i \in DOMAIN y : y[i] # e)

\* the rules of the list x that the list y does not hold
RulesOnlyIn(x, y) == SelectSeq(x, LAMBDA e : \A i \in DOMAIN y : ~DictEq(y[i], e))

\* the triples compare_topo owes the pair b, t: one per differing scalar property,
\* one per feature class name on one side only, one per rule on one side only
TopoTriplesOwed(b, t) ==
    Cardinality(TopoDifferingKeys(b, t) \ {"FeatureClassNames", "TopologyRules"})
    + Len(OnlyIn(Get(b, "FeatureClassNames"), Get(t, "FeatureClassNames")))
    + Len(OnlyIn(Get(t, "FeatureClassNames"), Get(b, "FeatureClassNames")))
    + Len(RulesOnlyIn(Get(b, "TopologyRules"), Get(t, "TopologyRules")))
    + Len(RulesOnlyIn(Get(t, "TopologyRules"), Get(b, "TopologyRules")))

\* the pairs (base topology, test topology) of one Name that differ in at least n
\* properties
TopoPairs(n) ==
    LET b == Parsed("topo", tree_base).list
        t == Parsed("topo", tree_test).list
    IN  { p \in SeqToSet(b) \X SeqToSet(t) :
              /\ Get(p[1], "Name") = Get(p[2], "Name")
              /\ Cardinality(TopoDifferingKeys(p[1], p[2])) >= n }

\* C17 as stated: a topology in both documents with several differing properties
\* (scalar properties, feature-class membership, rules) ends with a mismatch list
\* of one triple
C17_SingleTriple ==
    (Returned("topo") /\ IsOk(rets["topo"]))
    => \A p \in TopoPairs(2) :
           /\ HasKey(rets["topo"].diff, Get(p[2], "Name"))
           /\ Len(Get(rets["topo"].diff, Get(p[2], "Name")).items) = 1

\* C17: every mismatch branch of compare_topo appends to the list of the topology
\* once it exists: a topology in both documents with differing properties ends
\* with one triple per differing scalar property, one per feature class name that
\* only one side lists and one per rule that only one side lists
C17_TopoAppends ==
    (Returned("topo") /\ IsOk(rets["topo"]))
    => \A p \in TopoPairs(1) :
           IF TopoTriplesOwed(p[1], p[2]) = 0
           THEN ~HasKey(rets["topo"].diff, Get(p[2], "Name"))
           ELSE /\ HasKey(rets["topo"].diff, Get(p[2], "Name"))
                /\ Get(rets["topo"].diff, Get(p[2], "Name")).type = "list"
                /\ Len(Get(rets["topo"].diff, Get(p[2], "Name")).items)
                       = TopoTriplesOwed(p[1], p[2])

\* compare_topo returned for a topology whose ClusterTolerance and whose
\* feature-class list both differ
C17_Witness ==
    /\ Returned("topo")
    /\ IsOk(rets["topo"])
    /\ \E p \in TopoPairs(2) :
           {"ClusterTolerance", "FeatureClassNames"} \subseteq TopoDifferingKeys(p[1], p[2])

\* the pairs (base domain, test domain) of one DomainName, both coded-value
\* domains, whose coded-value mappings differ
CodedPairs ==
    LET b == Parsed("domain", tree_base).list
        t == Parsed("domain", tree_test).list
    IN  { p \in SeqToSet(b) \X SeqToSet(t) :
              /\ Get(p[1], "DomainName") = Get(p[2], "DomainName")
              /\ HasKey(p[1], "CodedValues") /\ HasKey(p[2], "CodedValues")
              /\ ~DictEq(Get(p[1], "CodedValues"), Get(p[2], "CodedValues")) }

\* the word the coded-value triple of the pair p is to carry
AdjOf(p) ==
    LET base_only == SeqToSet(Get(p[1], "CodedValues")) \ SeqToSet(Get(p[2], "CodedValues"))
        test_only == SeqToSet(Get(p[2], "CodedValues")) \ SeqToSet(Get(p[1], "CodedValues"))
    IN  IF base_only # {} /\ test_only # {} THEN "additional and missing"
        ELSE IF base_only # {} THEN "missing"
        ELSE "additional"

\* the coded-value triples among items
CodedTriples(items) ==
    SelectSeq(items, LAMBDA t : Len(t[1]) = 3 /\ t[1][1] = "Domain has "
                                /\ t[1][3] = " CodedValues")

\* both documents hold coded-value domains only
CodedValueDomainsOnly ==
    \A tree \in {tree_base, tree_test} :
        \A i \in DOMAIN tree.domains :
            \E k \in DOMAIN tree.domains[i] : tree.domains[i][k][1] = "CodedValues"

\* C18: for a coded-value domain in both documents whose coded-value mappings
\* differ, compare_domains completes and records exactly one coded-value triple,
\* which says "missing" when only base has pairs that test lacks, "additional"
\* when only test has pairs that base lacks, and "additional and missing" when
\* both have
C18_CodedValuesAdjective ==
    (Compared("domain") /\ CodedValueDomainsOnly /\ CodedPairs # {})
    => /\ IsOk(rets["domain"])
       /\ \A p \in CodedPairs :
              /\ HasKey(rets["domain"].diff, Get(p[2], "DomainName"))
              /\ LET ts == CodedTriples(Get(rets["domain"].diff,
                                            Get(p[2], "DomainName")).items)
                 IN  Len(ts) = 1 /\ ts[1][1][2] = AdjOf(p)

\* the pairs (base record, test record) of the feature classes in both documents
\* with the same subtype field and another default subtype code
DefaultCodePairs ==
    LET b == Parsed("fc", tree_base).list
        t == Parsed("fc", tree_test).list
    IN  { p \in SeqToSet(b) \X SeqToSet(t) :
              /\ Get(p[1], "Name") = Get(p[2], "Name")
              /\ Get(p[1], "SubtypeFieldName") # ""
              /\ Get(p[1], "SubtypeFieldName") = Get(p[2], "SubtypeFieldName")
              /\ Get(p[1], "SubtypeInfo")[1][2] # Get(p[2], "SubtypeInfo")[1][2] }

\* the mismatch entry of ds_name is the triple t, or a list that holds it
Recorded(c, ds_name, t) ==
    /\ HasKey(rets[c].diff, ds_name)
    /\ \/ Get(rets[c].diff, ds_name) = PyTuple(t)
       \/ /\ Get(rets[c].diff, ds_name).type = "list"
          /\ \E k \in DOMAIN Get(rets[c].diff, ds_name).items :
                 Get(rets[c].diff, ds_name).items[k] = t

\* C19: for a feature class in both documents with the same subtype field name
\* and another default subtype code, compare_datasets records the triple
\* ("Feature Class has mismatch DefaultSubtypeCode property", base default code,
\* test default code)
C19_DefaultSubtypeCodeValues ==
    (Returned("fc") /\ IsOk(rets["fc"]))
    => \A p \in DefaultCodePairs :
           Recorded("fc", Get(p[2], "Name"),
               << <<"Feature Class", " has mismatch DefaultSubtypeCode property">>,
                  Get(p[1], "SubtypeInfo")[1][2], Get(p[2], "SubtypeInfo")[1][2] >>)

\* the pairs (base record, test record) of the feature classes in both documents
FcPairs ==
    LET b == Parsed("fc", tree_base).list
        t == Parsed("fc", tree_test).list
    IN  { p \in SeqToSet(b) \X SeqToSet(t) : Get(p[1], "Name") = Get(p[2], "Name") }

\* the names of the subtypes of a feature-class record
SubtypeNames(ds) ==
    { Get(Get(ds, "Subtypes")[i], "SubtypeName") : i \in DOMAIN Get(ds, "Subtypes") }

\* how many times the mismatch entry of ds_name holds the triple t (an entry that
\* is one bare triple holds that triple once)
TimesRecorded(c, ds_name, t) ==
    IF ~IsOk(rets[c]) \/ ~HasKey(rets[c].diff, ds_name) THEN 0
    ELSE IF Get(rets[c].diff, ds_name).type = "tuple"
    THEN (IF Get(rets[c].diff, ds_name).items = t THEN 1 ELSE 0)
    ELSE Len(SelectSeq(Get(rets[c].diff, ds_name).items, LAMBDA x : x = t))

\* the two records differ, and in nothing but the SubtypeCode of subtypes they
\* both name
OnlyCodesDiffer(p) ==
    /\ ~EntityEq(p[1], p[2])
    /\ KeySet(p[1]) = KeySet(p[2])
    /\ \A k \in KeySet(p[1]) \ {"Subtypes"} : ValEq(k, Get(p[1], k), Get(p[2], k))
    /\ [i \in DOMAIN Get(p[1], "Subtypes") |-> Get(Get(p[1], "Subtypes")[i], "SubtypeName")]
           = [i \in DOMAIN Get(p[2], "Subtypes") |->
                 Get(Get(p[2], "Subtypes")[i], "SubtypeName")]

\* C20: for a feature class in both documents, a subtype name only in base gives
\* one "Missing subtype" triple, a subtype name only in test gives one "Additional
\* subtype" triple, and when the two records differ only in the SubtypeCode of a
\* subtype of the same name the feature class gets no triple at all
C20_SubtypesByName ==
    Returned("fc")
    => \A p \in FcPairs :
           /\ \A n \in SubtypeNames(p[1]) \ SubtypeNames(p[2]) :
                  TimesRecorded("fc", Get(p[2], "Name"), << <<"Missing subtype">>, n, "" >>) = 1
           /\ \A n \in SubtypeNames(p[2]) \ SubtypeNames(p[1]) :
                  TimesRecorded("fc", Get(p[2], "Name"), << <<"Additional subtype">>, "", n >>) = 1
           /\ OnlyCodesDiffer(p)
              => (IsOk(rets["fc"]) /\ ~HasKey(rets["fc"].diff, Get(p[2], "Name")))

\* ---- C21 ----

\* the pairs of FcPairs whose records both hold a Fields list
FieldedPairs == { p \in FcPairs : HasKey(p[1], "Fields") /\ HasKey(p[2], "Fields") }

\* the field names of a feature-class record
FieldNames(ds) == { Get(Get(ds, "Fields")[i], "Name") : i \in DOMAIN Get(ds, "Fields") }

\* the field record called n in the record ds
FieldNamed(ds, n) ==
    Get(ds, "Fields")[CHOOSE i \in DOMAIN Get(ds, "Fields") :
                          Get(Get(ds, "Fields")[i], "Name") = n]

\* the (field name, property) pairs whose value differs between the two records
FieldDifferences(p) ==
    { nk \in (FieldNames(p[1]) \cap FieldNames(p[2]))
             \X {"Name", "Type", "Length", "Domain"} :
          /\ HasKey(FieldNamed(p[1], nk[1]), nk[2])
          /\ HasKey(FieldNamed(p[2], nk[1]), nk[2])
          /\ Get(FieldNamed(p[1], nk[1]), nk[2]) # Get(FieldNamed(p[2], nk[1]), nk[2]) }

\* the triples of the mismatch entry of ds_name, in order
EntryItems(c, ds_name) ==
    IF ~IsOk(rets[c]) \/ ~HasKey(rets[c].diff, ds_name) THEN <<>>
    ELSE IF Get(rets[c].diff, ds_name).type = "tuple"
    THEN << Get(rets[c].diff, ds_name).items >>
    ELSE Get(rets[c].diff, ds_name).items

IsFieldPropertyTriple(t) ==
    Len(t[1]) = 3 /\ t[1][2] = " field has different values for "

IsFieldPresenceTriple(t) == t[1] \in { <<"Missing field">>, <<"Additional field">> }

\* the fields of the pair p differ in a name or in a property
FieldsDiffer(p) ==
    \/ FieldNames(p[1]) # FieldNames(p[2])
    \/ FieldDifferences(p) # {}

DomainsToggled == [ignore_dict EXCEPT !["Domains"] = ~@]

\* what the block of category c can return on the documents at hand under the
\* options d
ResultsUnder(c, d) ==
    CASE c = "fds" -> { compare_fds(tree_base, tree_test, "esri:DEFeatureDataset",
                            "Feature Dataset") }
      [] c = "fc" -> { compare_datasets(tree_base, tree_test, "esri:DEFeatureClass",
                           "Feature Class", FcFlagsOf(d)) }
      [] c = "tbl" -> { compare_datasets(tree_base, tree_test, "esri:DETable", "Table",
                            TblFlagsOf(d)) }
      [] c = "rc" -> { compare_relationship_classes(tree_base, tree_test,
                           "esri:DERelationshipClass", "Relationship Class") }
      [] c = "topo" -> IF d["Topology"] THEN {}
                       ELSE { compare_topo(tree_base, tree_test, "esri:DETopology",
                                  "Topology", seed) : seed \in Seeds }
      [] c = "attr" -> { compare_attr_rules(tree_base, tree_test, seed) : seed \in Seeds }

\* what the block of category c shows of the result r: the error that ends the
\* run, the sheet it adds to the workbook, or nothing
Shown(c, r) ==
    IF ~IsOk(r) THEN r
    ELSE IF HasDiff(r)
    THEN [status |-> "ok",
          sheet |-> write_results_to_xls(SheetName(c), ItemType(c), DictKey(c),
                        r.miss, r.diff, r.add)]
    ELSE [status |-> "ok"]

\* C22: what each category other than Domains shows (its sheet, or its error) is
\* what the same documents give with the Domains option the other way round and
\* the other five options as they are
C22_DomainsOptionOnlyDomains ==
    \A c \in {"fds", "fc", "tbl", "rc", "topo", "attr"} :
        Returned(c)
        => Shown(c, rets[c]) \in { Shown(c, r) : r \in ResultsUnder(c, DomainsToggled) }

\* ---- C23 ----

\* C23: after compare_datasets returns, the normalized test collection (each test
\* dataset with its Fields and Subtypes lists) is what the parser produced
C23_CollectionsReadOnly ==
    \A c \in {"fc", "tbl"} :
        (Returned(c) /\ IsOk(rets[c]))
        => rets[c].ds_list_test = Parsed(c, tree_test).list

\* ---- C24 ----

\* the DSIDs of the feature classes of a document
ClassIds(tree) ==
    UNION { { tree.fcs[i][k][2] : k \in { k \in DOMAIN tree.fcs[i] :
                                            tree.fcs[i][k][1] = "DSID" } } :
            i \in DOMAIN tree.fcs }

\* the class IDs that the topology rules of a document name
RuleClassIds(tree) ==
    UNION { UNION { UNION { { rule[n][2] : n \in { n \in DOMAIN rule :
                                  rule[n][1] \in {"OriginClassID", "DestinationClassID"} } } :
                            rule \in SeqToSet(tree.topos[i][k][2]) } :
                    k \in { k \in DOMAIN tree.topos[i] :
                              tree.topos[i][k][1] = "TopologyRules" } } :
            i \in DOMAIN tree.topos }

\* a topology rule of the document names a class ID its feature classes lack
UnknownClassIn(tree) == RuleClassIds(tree) \ ClassIds(tree) # {}

\* C24: when topologies are compared and a topology rule of either document names
\* a class ID that is no key of the document's ID -> Name table,
\* get_topo_properties fails with a KeyError on that document, compare_topo
\* returns no collections, and the run is aborted with nothing saved
C24_UnknownClassAborts ==
    /\ \A tree \in {tree_base, tree_test} :
           UnknownClassIn(tree)
           => get_topo_properties(tree, "esri:DETopology") = Err("KeyError")
    /\ (Compared("topo") /\ (UnknownClassIn(tree_base) \/ UnknownClassIn(tree_test)))
       => /\ rets["topo"] = Err("KeyError")
          /\ pc = "aborted"
          /\ ~saved

\* the topologies block has run on a test document with such a rule
C24_Witness ==
    /\ Compared("topo")
    /\ UnknownClassIn(tree_test)
    /\ ~UnknownClassIn(tree_base)
    /\ pc = "aborted"

\* ---- C25 ----

\* the categories whose block has run and returned its three collections
Completed == { c \in SeqToSet(Categories) : Compared(c) /\ IsOk(rets[c]) }

\* the categories the options switch off
SwitchedOff ==
    (IF ignore_dict["Domains"] THEN {"domain"} ELSE {})
    \cup (IF ignore_dict["Topology"] THEN {"topo"} ELSE {})

\* C25: a run that a differ's failure aborted has written no workbook, whatever
\* sheets the earlier categories added in memory; the workbook is written only
\* when every category that is not switched off has completed
C25_NoPartialReport ==
    /\ pc = "aborted" => ~saved
    /\ (\E c \in SeqToSet(Categories) : Compared(c) /\ ~IsOk(rets[c])) => ~saved
    /\ saved => (pc = "done" /\ Completed \cup SwitchedOff = SeqToSet(Categories))

\* a run aborted after an earlier category added its sheet to the workbook
C25_Witness ==
    /\ pc = "aborted"
    /\ save_wb
    /\ wb # <<>>

\* ---- C26 ----

\* the triples of one mismatch entry
TriplesOf(entry) == IF entry.type = "tuple" THEN << entry.items >> ELSE entry.items

RECURSIVE TriplesBefore(_, _)
\* how many triples the first e - 1 entries of the mismatch dict hold
TriplesBefore(diff, e) ==
    IF e <= 1 THEN 0
    ELSE TriplesBefore(diff, e - 1) + Len(TriplesOf(diff[e - 1][2]))

\* the workbook holds the sheet of category c
HasSheet(c) == \E i \in DOMAIN wb : wb[i].title = SheetName(c)

SheetOf(c) == wb[CHOOSE i \in DOMAIN wb : wb[i].title = SheetName(c)]

\* the name the sheet of category c shows for an entity of a missing or
\* additional list
ShownName(c, item) == IF DictKey(c) # "" THEN Get(item, DictKey(c)) ELSE item

\* the sheet sh has the value v in the cell (row, col)
Wrote(sh, row, col, v) == \E k \in DOMAIN sh.writes : sh.writes[k] = <<row, col, v>>

\* C26: the sheet of a category holds, from row 2 on and with no cell written
\* twice, one row per missing entity (name in columns 1 and 3), then per
\* mismatched entity one row per triple (description, base, test in columns 2 to
\* 4), the name cell merged over those rows when they are two or more, then one
\* row per additional entity (name in columns 1 and 4): |missing| + number of
\* triples + |additional| data rows in all
C26_OneRowPerEntry ==
    \A c \in SeqToSet(Categories) :
        (Returned(c) /\ IsOk(rets[c]) /\ HasDiff(rets[c]))
        => /\ HasSheet(c)
           /\ LET sh == SheetOf(c)
                  r == rets[c]
                  first == 1 + Len(r.miss)
                  total == TriplesBefore(r.diff, Len(r.diff) + 1)
              IN  /\ sh.row - 2 = Len(r.miss) + total + Len(r.add)
                  /\ \A i, j \in DOMAIN sh.writes :
                         (i # j) => <<sh.writes[i][1], sh.writes[i][2]>>
                                    # <<sh.writes[j][1], sh.writes[j][2]>>
                  /\ \A k \in DOMAIN r.miss :
                         /\ Wrote(sh, 1 + k, 1, ShownName(c, r.miss[k]))
                         /\ Wrote(sh, 1 + k, 3, ShownName(c, r.miss[k]))
                  /\ \A e \in DOMAIN r.diff :
                         LET triples == TriplesOf(r.diff[e][2])
                             start == first + TriplesBefore(r.diff, e) + 1
                         IN  /\ Wrote(sh, start, 1, r.diff[e][1])
                             /\ \A t \in DOMAIN triples : \A col \in 1..3 :
                                    Wrote(sh, start + t - 1, col + 1, triples[t][col])
                             /\ (Len(triples) >= 2)
                                <=> (\E m \in DOMAIN sh.merges :
                                        sh.merges[m] = <<start, start + Len(triples) - 1>>)
                  /\ \A k \in DOMAIN r.add :
                         /\ Wrote(sh, first + total + k, 1, ShownName(c, r.add[k]))
                         /\ Wrote(sh, first + total + k, 4, ShownName(c, r.add[k]))

\* ---- C27 ----

\* the mismatch dict of a returned compare_attr_rules
AttrDiff == IF Returned("attr") /\ IsOk(rets["attr"]) THEN rets["attr"].diff ELSE <<>>

\* the entries to which the append branch added a triple after an earlier rule of
\* the run had set domain_name: the inputs on which a stale name could show
AppendedAfterEarlier ==
    { e \in DOMAIN AttrDiff : e >= 2 /\ Len(AttrDiff[e][2].items) >= 2 }

\* the label of the triple t under the rule key at entry e names another rule,
\* one with an earlier entry
StaleLabel(e, t) ==
    /\ AttrDiff[e][2].items[t][1][1] # AttrDiff[e][1][3]
    /\ \E f \in 1..(e - 1) : AttrDiff[e][2].items[t][1][1] = AttrDiff[f][1][3]

\* C27 (as stated): domain_name leaks across iterations: where a triple is
\* appended under a rule key K after an earlier rule set domain_name, a triple
\* under K carries the label built from the earlier rule's name
C27_DomainNameLeaks ==
    \A e \in AppendedAfterEarlier :
        \E t \in DOMAIN AttrDiff[e][2].items : StaleLabel(e, t)

\* C27 (amended): every triple recorded under a rule key K carries the label built
\* from the rule name of K
C27_LabelFromOwnKey ==
    \A e \in DOMAIN AttrDiff :
        \A t \in DOMAIN AttrDiff[e][2].items :
            AttrDiff[e][2].items[t][1]
                = <<AttrDiff[e][1][3], " has mismatch ", AttrDiff[e][2].items[t][1][3],
                    " property">>

\* a result in which a triple was appended under a key after an earlier rule had
\* its own entry
C27_Witness == AppendedAfterEarlier # {}

\* ---- C28 ----

\* the two lists hold the same records, in another order
Reshuffled(a, b) == a # b /\ Len(a) = Len(b) /\ SeqToSet(a) = SeqToSet(b)

\* the records of the pair p differ in nothing but the order of the Fields list
\* or of the Subtypes list
OrderOnly(p) ==
    /\ KeySet(p[1]) = KeySet(p[2])
    /\ \A k \in KeySet(p[1]) \ {"Fields", "Subtypes"} : Get(p[1], k) = Get(p[2], k)
    /\ \A k \in KeySet(p[1]) \cap {"Fields", "Subtypes"} :
           Get(p[1], k) = Get(p[2], k) \/ Reshuffled(Get(p[1], k), Get(p[2], k))
    /\ \E k \in KeySet(p[1]) \cap {"Fields", "Subtypes"} :
           Reshuffled(Get(p[1], k), Get(p[2], k))

\* the two documents hold the same feature classes, each either equal on both
\* sides or differing in order only
OrderOnlyRun ==
    /\ ParsedNames("fc", Parsed("fc", tree_base)) = ParsedNames("fc", Parsed("fc", tree_test))
    /\ \A p \in FcPairs : p[1] = p[2] \/ OrderOnly(p)

\* C28: a feature class whose base and test records differ only in the order of
\* their fields or of their subtypes gets no entry in the mismatchDict that
\* compare_datasets returns; when nothing else differs between the feature
\* classes of the two documents, compare_datasets returns three empty
\* collections and the block adds no sheet
C28_InnerOrderIgnored ==
    Returned("fc")
    => /\ \A p \in FcPairs :
              (OrderOnly(p) /\ IsOk(rets["fc"]))
              => ~HasKey(rets["fc"].diff, Get(p[2], "Name"))
       /\ OrderOnlyRun
          => /\ IsOk(rets["fc"])
             /\ IsEmptyTriple(rets["fc"])
             /\ ~HasSheet("fc")

\* compare_datasets has returned on two documents whose feature class Roads
\* has its two fields in another order
C28_Witness ==
    /\ Returned("fc")
    /\ OrderOnlyRun
    /\ \E p \in FcPairs : OrderOnly(p) /\ Reshuffled(Get(p[1], "Fields"), Get(p[2], "Fields"))

\* the same, with the two subtypes of Roads in another order
C28_WitnessSubtypes ==
    /\ Returned("fc")
    /\ OrderOnlyRun
    /\ \E p \in FcPairs : OrderOnly(p) /\ Reshuffled(Get(p[1], "Subtypes"), Get(p[2], "Subtypes"))

\* ---- C29 ----

\* the pairs (base record, test record) of the feature datasets in both documents
FdsPairs ==
    LET b == Parsed("fds", tree_base).list
        t == Parsed("fds", tree_test).list
    IN  { p \in SeqToSet(b) \X SeqToSet(t) : Get(p[1], "Name") = Get(p[2], "Name") }

\* the two records differ in their Children list and in nothing else
ChildrenOnly(p) ==
    /\ KeySet(p[1]) = KeySet(p[2])
    /\ \A k \in KeySet(p[1]) \ {"Children"} : Get(p[1], k) = Get(p[2], k)
    /\ Get(p[1], "Children") # Get(p[2], "Children")

\* the two documents differ in nothing but the feature classes inside feature
\* datasets they both hold
MembershipOnlyRun ==
    /\ [tree_base EXCEPT !.fds = <<>>] = [tree_test EXCEPT !.fds = <<>>]
    /\ ParsedNames("fds", Parsed("fds", tree_base))
           = ParsedNames("fds", Parsed("fds", tree_test))
    /\ \A p \in FdsPairs : p[1] = p[2] \/ ChildrenOnly(p)
    /\ \E p \in FdsPairs : ChildrenOnly(p)

\* C29: a feature dataset whose base and test records have the same Name and
\* equal scalar properties but other Children gets no entry in the mismatchDict
\* of compare_fds; when that is all that differs between the two documents,
\* compare_fds returns three empty collections, no sheet is added and the run
\* ends with no report written
C29_MembershipNotCompared ==
    /\ (Returned("fds") /\ IsOk(rets["fds"]))
       => \A p \in FdsPairs :
              ChildrenOnly(p) => ~HasKey(rets["fds"].diff, Get(p[2], "Name"))
    /\ (Returned("fds") /\ MembershipOnlyRun) => IsEmptyTriple(rets["fds"])
    /\ (pc \in {"done", "aborted"} /\ MembershipOnlyRun)
       => (pc = "done" /\ wb = <<>> /\ ~save_wb /\ ~saved)

\* a finished run on two documents that differ only in the feature classes
\* inside the feature dataset Transport
C29_Witness ==
    /\ pc = "done"
    /\ MembershipOnlyRun

\* ---- C30 ----

\* the pairs (base record, test record) of the entities of category c that both
\* documents name
PairsIn(c) ==
    IF ~IsOk(Parsed(c, tree_base)) \/ ~IsOk(Parsed(c, tree_test)) THEN {}
    ELSE { p \in SeqToSet(Parsed(c, tree_base).list) \X SeqToSet(Parsed(c, tree_test).list) :
               Get(p[1], NameKey(c)) = Get(p[2], NameKey(c)) }

\* the triple t is about the property k
Mentions(t, k) ==
    \/ \E i \in DOMAIN t[1] : t[1][i] = k
    \/ k = "CodedValues" /\ \E i \in DOMAIN t[1] : t[1][i] = " CodedValues"
    \/ k = "Fields" /\ (IsFieldPresenceTriple(t) \/ IsFieldPropertyTriple(t))

\* the domains that both documents name, with a property key in the test record
\* that the base record lacks
TestOnlyKeyPairs == { p \in PairsIn("domain") : KeySet(p[2]) \ KeySet(p[1]) # {} }

\* C30: the property loop of a differ goes over the keys of the test record and
\* looks each one up in the base record: when a domain of both documents has a
\* property key in test that base lacks (a range domain in base and a coded-value
\* domain in test, or the reverse), compare_domains fails with a KeyError and
\* returns no diff; and no differ that returns records a triple about a property
\* that only the base record holds
C30_TestKeysLookedUpInBase ==
    /\ (Compared("domain") /\ TestOnlyKeyPairs # {})
       => rets["domain"] = Err("KeyError")
    /\ \A c \in ListCategories :
           (Returned(c) /\ IsOk(rets[c]))
           => \A p \in PairsIn(c) :
                  \A k \in KeySet(p[1]) \ KeySet(p[2]) :
                      \A i \in DOMAIN EntryItems(c, Get(p[2], NameKey(c))) :
                          ~Mentions(EntryItems(c, Get(p[2], NameKey(c)))[i], k)

\* compare_domains has run on a domain that is a range domain in base and a
\* coded-value domain in test
C30_Witness ==
    /\ Compared("domain")
    /\ \E p \in TestOnlyKeyPairs : HasKey(p[1], "Range") /\ HasKey(p[2], "CodedValues")

\* a differ has returned on an entity with a property that only the base record
\* holds
C30_WitnessBaseOnly ==
    \E c \in ListCategories :
        /\ Returned(c) /\ IsOk(rets[c])
        /\ \E p \in PairsIn(c) : KeySet(p[1]) \ KeySet(p[2]) # {}

====
